---- MODULE Spec2Model ----
(***************************************************************************)
(* Model of the deep-research backend: the job registry and event log of   *)
(* backend/main.py and the LangGraph pipeline of                           *)
(* backend/deep_research_agent.py.                                         *)
(*                                                                         *)
(* Python runs the service on one asyncio event loop, so a step of the     *)
(* model is the code one task runs between two suspension points: an       *)
(* endpoint handler with no await in it is one step, and the pipeline is   *)
(* cut at the awaits of its LLM calls and at the boundaries of the graph's *)
(* nodes.                                                                  *)
(*                                                                         *)
(* Strings are sequences of slices [b |-> base, n |-> length]: the first n *)
(* characters of a text named base.  "" is << >>, + is \o, len() is the    *)
(* sum of the n, s[:k] cuts the slice the k-th character falls in.         *)
(* Python dicts are functions whose DOMAIN is the set of keys present.     *)
(***************************************************************************)
EXTENDS Integers, Sequences, FiniteSets, TLC

VARIABLES
    research_tasks,   \* main.py research_tasks: job id -> dict
    research_events,  \* main.py research_events: job id -> list of events
    task,             \* per submitted job: the execute_research task and its agent
    rstate,           \* per running job: the pipeline's ResearchState
    streams,          \* per subscriber: the event_stream generator of its connection
    now               \* datetime.now(), in hours

vars == <<research_tasks, research_events, task, rstate, streams, now>>

---------------------------------------------------------------------------
(* Bounds of the model *)

\* largest max_iterations a request carries (the smallest is 0)
MaxIterationsInput == 4
\* most entries an adapter returns for one search
MaxAdapterResults == 1
\* most Text Generator calls that fail in one job
MaxLLMFailures == 1

\* most site summaries a pipeline holds when REPORT is checked on its own
MaxSummaries == 3

\* The job identifiers uuid4 may hand out.
JobIds == {"job1"}

---------------------------------------------------------------------------
(* Program constants *)

RecentWindow == 5           \* search_results[-5:], site_summaries[-5:]
PreviewCap == 200           \* analysis_content[:200]
AnalysisThreshold == 2000   \* len(analysis) > 2000
ProgressCap == 90
ProgressDone == 100
ProgressStart == 10
ProgressStepSmall == 5
ProgressStepLarge == 10
DefaultMaxIterations == 5   \* state.get("max_iterations", 5)

---------------------------------------------------------------------------
(* Strings *)

Lit(name, n) == <<[b |-> name, n |-> n]>>

RECURSIVE StrLen(_)
StrLen(s) == IF s = << >> THEN 0 ELSE Head(s).n + StrLen(Tail(s))

\* s[:k]
RECURSIVE StrTake(_, _)
StrTake(s, k) ==
    IF s = << >> \/ k <= 0 THEN << >>
    ELSE IF Head(s).n <= k THEN <<Head(s)>> \o StrTake(Tail(s), k - Head(s).n)
    ELSE <<[b |-> Head(s).b, n |-> k]>>

\* bool(s) of a Python string
Truthy(s) == StrLen(s) > 0

IsPrefix(s, t) == Len(s) <= Len(t) /\ SubSeq(t, 1, Len(s)) = s

IsSpace(c) == c.b = " "

\* str.strip()
RECURSIVE LStrip(_)
LStrip(s) == IF s # << >> /\ IsSpace(Head(s)) THEN LStrip(Tail(s)) ELSE s

RECURSIVE RStrip(_)
RStrip(s) ==
    IF s # << >> /\ IsSpace(s[Len(s)]) THEN RStrip(SubSeq(s, 1, Len(s) - 1)) ELSE s

Strip(s) == RStrip(LStrip(s))

---------------------------------------------------------------------------
(* Dicts *)

EmptyDict == << >>

Put(d, k, v) == (k :> v) @@ d

Get(d, k, default) == IF k \in DOMAIN d THEN d[k] ELSE default

\* Python's None
None == "None"

---------------------------------------------------------------------------
(* Requests: the body of POST /research *)

\* A slice named " " is a run of blanks; every other base starts and ends
\* with a non-blank character.
Queries == { << >>, Lit(" ", 1), Lit("q", 1) }
Providers == {"openai", "ollama", "other"}
ApiKeys == {None, "", "sk"}

Requests ==
    [query : Queries, llm_provider : Providers, api_key : ApiKeys,
     max_iterations : 0 .. MaxIterationsInput]

\* "not request.api_key"
Falsy(key) == key = None \/ key = ""

---------------------------------------------------------------------------
(* The registry and the event log *)

\* The two module-level stores, passed through the code of one step.
World == [tasks |-> research_tasks, events |-> research_events]

\* research_events is a defaultdict(list): reading a missing key creates it.
EventsOf(events, j) == Get(events, j, << >>)

AppendEvent(events, j, ev) == Put(events, j, Append(EventsOf(events, j), ev))

\* A callback that puts the newest preview before the older ones.
PartialAfterNewestFirst(t, status_type, data) ==
    IF status_type = "analyze_complete" /\ DOMAIN data # {}
       /\ "insights_preview" \in DOMAIN data
    THEN LET partial == data.insights_preview
             current_partial == Get(t, "partial_result", << >>)
         IN  IF ~Truthy(partial) THEN t
             ELSE IF Truthy(current_partial)
             THEN Put(t, "partial_result",
                      partial \o Lit("## Analise anterior", 23) \o current_partial)
             ELSE Put(t, "partial_result",
                      Lit("# Resultados Parciais", 23) \o partial)
    ELSE t

\* callback: "Captura a analise como resultado parcial quando disponivel"
PartialAfter(t, status_type, data) ==
    IF status_type = "analyze_complete" /\ DOMAIN data # {}
       /\ "insights_preview" \in DOMAIN data
    THEN LET partial == data.insights_preview
             current_partial == Get(t, "partial_result", << >>)
         IN  IF ~Truthy(partial) THEN t
             ELSE IF Truthy(current_partial)
             THEN Put(t, "partial_result",
                      current_partial \o Lit("## Nova Analise", 19) \o partial)
             ELSE Put(t, "partial_result",
                      Lit("# Resultados Parciais", 23) \o partial)
    ELSE t

Min(a, b) == IF a <= b THEN a ELSE b

\* callback's progress update with the cap of the analyze branch left out
ProgressAfterUncapped(t, status_type) ==
    LET p == Get(t, "progress", 0)
    IN  CASE status_type = "start"   -> Put(t, "progress", ProgressStart)
          [] status_type = "plan"    -> Put(t, "progress", Min(p + ProgressStepSmall, ProgressCap))
          [] status_type = "search"  -> Put(t, "progress", Min(p + ProgressStepSmall, ProgressCap))
          [] status_type = "analyze" -> Put(t, "progress", p + ProgressStepLarge)
          [] status_type = "report"  -> Put(t, "progress", ProgressCap)
          [] OTHER -> t

\* callback: "Atualiza progresso"
ProgressAfter(t, status_type) ==
    LET p == Get(t, "progress", 0)
    IN  CASE status_type = "start"   -> Put(t, "progress", ProgressStart)
          [] status_type = "plan"    -> Put(t, "progress", Min(p + ProgressStepSmall, ProgressCap))
          [] status_type = "search"  -> Put(t, "progress", Min(p + ProgressStepSmall, ProgressCap))
          [] status_type = "analyze" -> Put(t, "progress", Min(p + ProgressStepLarge, ProgressCap))
          [] status_type = "report"  -> Put(t, "progress", ProgressCap)
          [] OTHER -> t

\* A callback that keeps one research id for all the agents of the process:
\* the id of the first job of the registry.
CallbackShared(w, j, status_type, message, data) ==
    LET id == CHOOSE k \in DOMAIN w.tasks \cup {j} : TRUE
        event == [type |-> status_type,
                  data |-> [message |-> message, details |-> data]]
        events1 == AppendEvent(w.events, id, event)
    IN  IF id \in DOMAIN w.tasks
        THEN LET t1 == Put(w.tasks[id], "last_message", message)
                 t2 == PartialAfter(t1, status_type, data)
                 t3 == ProgressAfter(t2, status_type)
             IN  [tasks |-> Put(w.tasks, id, t3), events |-> events1]
        ELSE [tasks |-> w.tasks, events |-> events1]

\* status_callback_factory(research_id).callback(status_type, message, data);
\* the last_update timestamp is left out.
Callback(w, j, status_type, message, data) ==
    LET event == [type |-> status_type,
                  data |-> [message |-> message, details |-> data]]
        events1 == AppendEvent(w.events, j, event)
    IN  IF j \in DOMAIN w.tasks
        THEN LET t1 == Put(w.tasks[j], "last_message", message)
                 t2 == PartialAfter(t1, status_type, data)
                 t3 == ProgressAfter(t2, status_type)
             IN  [tasks |-> Put(w.tasks, j, t3), events |-> events1]
        ELSE [tasks |-> w.tasks, events |-> events1]

\* DeepResearchAgent.log_status with the callback of job j
LogStatus(w, j, message, status_type, data) == Callback(w, j, status_type, message, data)

---------------------------------------------------------------------------
(* POST /research *)

\* The requests a run submits: every combination of query, provider and
\* key with the default max_iterations, and the plain ollama request with
\* every max_iterations.
DefaultRequestIterations == 3

SubmittedRequests ==
    { r \in Requests :
        \/ r.max_iterations = DefaultRequestIterations
        \/ (r.query = Lit("q", 1) /\ r.llm_provider = "ollama" /\ r.api_key = None) }

NewTask(request) ==
    [pc |-> "created", request |-> request, retval |-> << >>, i |-> 0, llm_failures |-> 0]

research_endpoint(j, request) ==
    /\ j \notin DOMAIN task
    /\ research_tasks' = Put(research_tasks, j,
            [status |-> "started",
             start_time |-> now,
             query |-> request.query,
             config |-> [provider |-> request.llm_provider,
                         max_iterations |-> request.max_iterations],
             progress |-> 0,
             partial_result |-> << >>])
    /\ research_events' = AppendEvent(research_events, j,
            [type |-> "init",
             data |-> [message |-> "Pesquisa iniciada",
                       details |-> [provider |-> request.llm_provider,
                                    max_iterations |-> request.max_iterations]]])
    /\ task' = Put(task, j, NewTask(request))
    /\ UNCHANGED rstate
    /\ UNCHANGED <<streams, now>>

---------------------------------------------------------------------------
(* DELETE /research/{research_id} *)

\* DELETE /research/{id} without the test of the status.
CancelOutcomeUnchecked(w, research_id) ==
    IF research_id \notin DOMAIN w.tasks
    THEN [w |-> w, response |-> [status_code |-> 404, detail |-> "Pesquisa nao encontrada"]]
    ELSE [w |-> [tasks |-> Put(w.tasks, research_id,
                               Put(w.tasks[research_id], "status", "cancelled")),
                 events |-> AppendEvent(w.events, research_id,
                               [type |-> "cancelled",
                                data |-> [message |-> "Pesquisa cancelada pelo usuario"]])],
          response |-> [message |-> <<"Pesquisa cancelada">>, research_id |-> research_id]]

\* DELETE /research/{id}: the registry and the log it leaves, and its response.
CancelOutcome(w, research_id) ==
    IF research_id \notin DOMAIN w.tasks
    THEN [w |-> w, response |-> [status_code |-> 404, detail |-> "Pesquisa nao encontrada"]]
    ELSE LET task_info == w.tasks[research_id]
         IN  IF Get(task_info, "status", None) \notin {"started", "running"}
             THEN [w |-> w,
                   response |-> [message |-> <<"Pesquisa nao pode ser cancelada. Status atual",
                                               Get(task_info, "status", None)>>,
                                 research_id |-> research_id]]
             ELSE [w |-> [tasks |-> Put(w.tasks, research_id,
                                        Put(task_info, "status", "cancelled")),
                          events |-> AppendEvent(w.events, research_id,
                                        [type |-> "cancelled",
                                         data |-> [message |-> "Pesquisa cancelada pelo usuario"]])],
                   response |-> [message |-> <<"Pesquisa cancelada">>,
                                 research_id |-> research_id]]

\* The client learns a job's id from the response of POST /research, and the
\* event loop runs the first step of the task that handler created before it
\* reads another request: no request for j is handled while j's task has
\* not started.
cancel_research(j) ==
    /\ j \in DOMAIN research_tasks
    /\ task[j].pc # "created"
    /\ LET o == CancelOutcome(World, j)
       IN  /\ research_tasks' = o.w.tasks
           /\ research_events' = o.w.events
    /\ UNCHANGED <<task, rstate, streams, now>>

\* GET /research/{id}: the response.
get_research_result(tasks, research_id) ==
    IF research_id \notin DOMAIN tasks
    THEN [status_code |-> 404, detail |-> "Pesquisa nao encontrada"]
    ELSE LET task_info == tasks[research_id]
             status == Get(task_info, "status", "unknown")
         IN  IF status = "completed" /\ "result" \in DOMAIN task_info
             THEN [research_id |-> research_id, status |-> status,
                   result |-> task_info.result]
             ELSE IF status \in {"timeout", "failed"}
             THEN [research_id |-> research_id, status |-> status,
                   error |-> Get(task_info, "error", Lit("Erro desconhecido", 17)),
                   result |-> Get(task_info, "result", << >>)]
             ELSE IF status \in {"running", "started"}
             THEN [research_id |-> research_id, status |-> status,
                   progress |-> Get(task_info, "progress", 0),
                   result |-> Get(task_info, "partial_result", << >>),
                   message |-> "Pesquisa em andamento"]
             ELSE [research_id |-> research_id, status |-> status,
                   message |-> "Status desconhecido"]

---------------------------------------------------------------------------
(* The Text Generator *)

\* What one call of invoke_llm can do: return one of texts, or raise.
LLMOutcomes(texts, failures) ==
    { [ok |-> TRUE, text |-> t] : t \in texts }
    \cup (IF failures < MaxLLMFailures THEN { [ok |-> FALSE, text |-> << >>] } ELSE {})

\* str(e) of the exception an LLM call raises
LLMError == Lit("LLM unavailable", 15)

\* invoke_llm's except branch: log, then re-raise
InvokeLLMFailed(w, j) == LogStatus(w, j, "Erro ao invocar LLM", "error", EmptyDict)

---------------------------------------------------------------------------
(* execute_research *)

\* The validations at the top of execute_research: str(e) of the ValueError
\* raised, "" when none is.
ValidationError(request) ==
    IF ~Truthy(Strip(request.query)) THEN Lit("Query nao pode estar vazia", 26)
    ELSE IF request.llm_provider = "openai" /\ Falsy(request.api_key)
    THEN Lit("API key necessaria para OpenAI", 30)
    ELSE IF request.llm_provider \notin {"openai", "ollama"}
    THEN Lit("Provider deve ser 'openai' ou 'ollama'", 38)
    ELSE << >>

\* execute_research, "except Exception as e"
ExceptBranch(w, j, e) ==
    LET partial_result == Get(w.tasks[j], "partial_result", << >>)
        t1 == Put(Put(w.tasks[j], "status", "failed"), "error", e)
        t2 == IF Truthy(partial_result)
              THEN Put(t1, "result",
                       Lit("# Resultado Parcial (Erro)", 28) \o partial_result
                       \o Lit("## Erro", 11) \o e)
              ELSE t1
    IN  [tasks |-> Put(w.tasks, j, t2),
         events |-> AppendEvent(w.events, j,
            [type |-> "error",
             data |-> [message |-> "Erro durante pesquisa",
                       error |-> e,
                       result |-> IF Truthy(partial_result) THEN partial_result ELSE None]])]

\* execute_research, "except asyncio.TimeoutError"
TimeoutPlaceholder == Lit("# Resultado Parcial (Timeout)", 88)

\* The timeout branch without "if not partial_result: partial_result = ..."
TimeoutBranchNoPlaceholder(w, j) ==
    LET partial_result == Get(w.tasks[j], "partial_result", << >>)
        t1 == Put(Put(w.tasks[j], "status", "timeout"), "result", partial_result)
    IN  [tasks |-> Put(w.tasks, j, t1),
         events |-> AppendEvent(w.events, j,
            [type |-> "error",
             data |-> [message |-> "Timeout na execucao da pesquisa",
                       error |-> Lit("timeout", 7),
                       result |-> partial_result]])]

\* The deadline's branch with an event of type "timeout" in place of "error".
TimeoutBranchTimeoutEvent(w, j) ==
    LET stored == Get(w.tasks[j], "partial_result", << >>)
        partial_result == IF ~Truthy(stored) THEN TimeoutPlaceholder ELSE stored
        t1 == Put(Put(w.tasks[j], "status", "timeout"), "result", partial_result)
    IN  [tasks |-> Put(w.tasks, j, t1),
         events |-> AppendEvent(w.events, j,
            [type |-> "timeout",
             data |-> [message |-> "Timeout na execucao da pesquisa",
                       error |-> Lit("timeout", 7),
                       result |-> partial_result]])]

\* A timeout handler that goes on into the statements of the completed
\* outcome, with the partial result for its result.
TimeoutBranchFallsThrough(w, j) ==
    LET stored == Get(w.tasks[j], "partial_result", << >>)
        partial_result == IF ~Truthy(stored) THEN TimeoutPlaceholder ELSE stored
        t1 == Put(Put(Put(w.tasks[j], "status", "completed"), "result", partial_result),
                  "progress", ProgressDone)
        timeout_event == [type |-> "error",
                          data |-> [message |-> "Timeout na execucao da pesquisa",
                                    error |-> Lit("timeout", 7),
                                    result |-> partial_result]]
        complete_event == [type |-> "complete",
                           data |-> [message |-> "Pesquisa concluida com sucesso",
                                     result |-> partial_result]]
    IN  [tasks |-> Put(w.tasks, j, t1),
         events |-> AppendEvent(AppendEvent(w.events, j, timeout_event), j, complete_event)]

TimeoutBranch(w, j) ==
    LET stored == Get(w.tasks[j], "partial_result", << >>)
        partial_result == IF ~Truthy(stored) THEN TimeoutPlaceholder ELSE stored
        t1 == Put(Put(w.tasks[j], "status", "timeout"), "result", partial_result)
    IN  [tasks |-> Put(w.tasks, j, t1),
         events |-> AppendEvent(w.events, j,
            [type |-> "error",
             data |-> [message |-> "Timeout na execucao da pesquisa",
                       error |-> Lit("timeout", 7),
                       result |-> partial_result]])]

\* A branch that writes the outcome to the record and logs no event.
CompletedBranchNoEvent(w, j, result) ==
    LET t1 == Put(Put(Put(w.tasks[j], "status", "completed"), "result", result),
                  "progress", ProgressDone)
    IN  [tasks |-> Put(w.tasks, j, t1), events |-> w.events]

\* execute_research after wait_for returned result
CompletedBranch(w, j, result) ==
    LET t1 == Put(Put(Put(w.tasks[j], "status", "completed"), "result", result),
                  "progress", ProgressDone)
    IN  [tasks |-> Put(w.tasks, j, t1),
         events |-> AppendEvent(w.events, j,
            [type |-> "complete",
             data |-> [message |-> "Pesquisa concluida com sucesso",
                       result |-> result]])]

\* research(): initial_state
InitialState(query, max_iterations) ==
    [query |-> query, max_iterations |-> max_iterations, iteration |-> 0,
     search_results |-> << >>, site_summaries |-> << >>, search_queries |-> << >>,
     analysis |-> << >>, final_report |-> << >>, sources |-> << >>,
     current_search_query |-> << >>, search_mode |-> "google"]

\* research() up to graph.ainvoke
ResearchPrologue(w, j, query, max_iterations) ==
    LogStatus(
        LogStatus(w, j, "Iniciando pesquisa", "start",
                  [query |-> query, max_iterations |-> max_iterations]),
        j, "Executando pipeline de pesquisa...", "pipeline_start", EmptyDict)

SetWorld(w) ==
    /\ research_tasks' = w.tasks
    /\ research_events' = w.events

SetTask(j, fields) == task' = Put(task, j, fields @@ task[j])

\* The task created by research_endpoint starts: from the validations to
\* the first suspension of research().  The request is not read again once
\* research() has been called with its fields.
execute_research_start(j) ==
    /\ j \in DOMAIN task
    /\ task[j].pc = "created"
    /\ LET request == task[j].request
           e == ValidationError(request)
       IN  IF Truthy(e)
           THEN /\ SetWorld(ExceptBranch(World, j, e))
                /\ SetTask(j, [pc |-> "done"])
                /\ UNCHANGED rstate
           ELSE LET w1 == [tasks |-> Put(research_tasks, j,
                                         Put(research_tasks[j], "status", "running")),
                           events |-> research_events]
                IN  /\ SetWorld(ResearchPrologue(w1, j, request.query, request.max_iterations))
                    /\ SetTask(j, [pc |-> "plan_search", request |-> None])
                    /\ rstate' = Put(rstate, j,
                                     InitialState(request.query, request.max_iterations))
    /\ UNCHANGED <<streams, now>>

\* research(), "except Exception as e": the error is logged and returned as
\* the result string.
ResearchFailed(w, j, e) ==
    LogStatus(w, j, "Erro durante pesquisa", "error", [error |-> e])

ErrorMsg(e) == Lit("Erro durante pesquisa: ", 23) \o e

\* An LLM call of plan_search, analyze_results or generate_report raises:
\* invoke_llm logs and re-raises, the graph propagates, research() catches.
LLMFailurePropagates(j) ==
    /\ SetWorld(ResearchFailed(InvokeLLMFailed(World, j), j, LLMError))
    /\ SetTask(j, [pc |-> "returned", retval |-> ErrorMsg(LLMError),
                   llm_failures |-> task[j].llm_failures + 1])
    /\ UNCHANGED rstate

\* wait_for returns the value of research()
execute_research_completed(j) ==
    /\ j \in DOMAIN task
    /\ task[j].pc = "returned"
    /\ SetWorld(CompletedBranch(World, j, task[j].retval))
    /\ SetTask(j, [pc |-> "done"])
    /\ UNCHANGED rstate
    /\ UNCHANGED <<streams, now>>

\* The positions at which research() is suspended inside wait_for.
PipelinePositions ==
    {"plan_search", "plan_llm", "execute_search", "summarize_sites", "summarize_llm",
     "analyze_results", "analyze_llm", "should_continue", "generate_report",
     "report_llm", "graph_end"}

\* wait_for's deadline expires: research() is cancelled where it is suspended
\* (CancelledError is not an Exception, so no handler of the pipeline runs)
\* and execute_research handles asyncio.TimeoutError.
execute_research_timeout(j) ==
    /\ j \in DOMAIN task
    /\ task[j].pc \in PipelinePositions
    /\ SetWorld(TimeoutBranch(World, j))
    /\ SetTask(j, [pc |-> "done"])
    /\ UNCHANGED rstate
    /\ UNCHANGED <<streams, now>>

---------------------------------------------------------------------------
(* plan_search *)

\* A schedule that gives every mode but one the same share.
search_mode_options_equal == <<"google", "arxiv", "wikipedia", "arxiv">>

search_mode_options == <<"google", "arxiv", "google", "wikipedia">>

ModeName(search_mode) ==
    CASE search_mode = "google" -> Lit("google", 6)
      [] search_mode = "arxiv" -> Lit("arxiv", 5)
      [] search_mode = "wikipedia" -> Lit("wikipedia", 9)
      [] OTHER -> Lit("site", 4)

\* A plan_search that keeps only the last query planned.
PlanRecordedLastOnly(st, search_mode, search_query) ==
    [st EXCEPT !.search_mode = search_mode,
               !.current_search_query = search_query,
               !.search_queries =
                   <<ModeName(search_mode) \o Lit(": ", 2) \o search_query>>]

\* plan_search from "Armazena o modo de busca e a query" to its return
PlanRecorded(st, search_mode, search_query) ==
    [st EXCEPT !.search_mode = search_mode,
               !.current_search_query = search_query,
               !.search_queries =
                   Append(@, ModeName(search_mode) \o Lit(": ", 2) \o search_query)]

PlanLogged(w, j, search_mode, search_query) ==
    LogStatus(w, j, "Query planejada", "plan", [query |-> search_query, mode |-> search_mode])

\* A plan_search that takes the mode of every iteration from the schedule.
FixedModeFromSchedule(iteration) == search_mode_options[(iteration % 4) + 1]

\* The fixed modes of the first three iterations.
FixedMode(iteration) ==
    CASE iteration = 0 -> "google"
      [] iteration = 1 -> "arxiv"
      [] iteration = 2 -> "wikipedia"

plan_search(j) ==
    /\ j \in DOMAIN task
    /\ task[j].pc = "plan_search"
    /\ LET st == rstate[j]
           iteration == st.iteration
           w1 == LogStatus(World, j, "Planejando proxima busca...", "plan", EmptyDict)
       IN  IF iteration \in {0, 1, 2}
           THEN /\ SetWorld(PlanLogged(w1, j, FixedMode(iteration), st.query))
                /\ rstate' = Put(rstate, j, PlanRecorded(st, FixedMode(iteration), st.query))
                /\ SetTask(j, [pc |-> "execute_search"])
           ELSE /\ SetWorld(LogStatus(w1, j, "Gerando nova query baseada na analise anterior",
                                      "plan", EmptyDict))
                /\ SetTask(j, [pc |-> "plan_llm"])
                /\ UNCHANGED rstate
    /\ UNCHANGED <<streams, now>>

\* plan_search resumes from "await self.invoke_llm(prompt)"
plan_llm_return(j, texts) ==
    /\ j \in DOMAIN task
    /\ task[j].pc = "plan_llm"
    /\ \E o \in LLMOutcomes(texts, task[j].llm_failures) :
         IF o.ok
         THEN LET st == rstate[j]
                  search_query == Strip(o.text)
                  search_mode == search_mode_options[(st.iteration % 4) + 1]
              IN  /\ SetWorld(PlanLogged(World, j, search_mode, search_query))
                  /\ rstate' = Put(rstate, j, PlanRecorded(st, search_mode, search_query))
                  /\ SetTask(j, [pc |-> "execute_search"])
         ELSE LLMFailurePropagates(j)
    /\ UNCHANGED <<streams, now>>

---------------------------------------------------------------------------
(* execute_search *)

\* An entry an adapter returns for a failed search.
AdapterError(search_mode) ==
    [error |-> Lit("Erro na busca", 13), source_type |-> search_mode]

PageNames == <<"p1", "p2", "p3", "p4", "p5", "p6">>

AdapterEntry(search_mode, k) ==
    [title |-> Lit("title", 5) \o ModeName(search_mode),
     url |-> Lit("https://", 8) \o ModeName(search_mode) \o Lit("/", 1) \o Lit(PageNames[k], 2),
     snippet |-> Lit("snippet", 7),
     source_type |-> search_mode]

\* module-level execute_search(query, search_mode, num_results): the list an
\* adapter returns, n valid entries, or one error entry when it failed.
AdapterOutput(search_mode, shape) ==
    IF shape.failed THEN <<AdapterError(search_mode)>>
    ELSE [k \in 1 .. shape.n |-> AdapterEntry(search_mode, k)]

\* The most entries the adapter of a mode returns: google asks the search
\* library for num_results=5, arxiv asks the API for max_results 3 and
\* wikipedia for srlimit 1.
AdapterLimit(search_mode) ==
    CASE search_mode = "arxiv" -> 3
      [] search_mode = "wikipedia" -> 1
      [] OTHER -> 5

\* What an adapter can do: fail, or find up to MaxAdapterResults entries.
AdapterShapes ==
    { [failed |-> FALSE, n |-> n] : n \in 0 .. MaxAdapterResults }
    \cup { [failed |-> TRUE, n |-> 0] }

\* What extract_web_content(url) can return: the page's text ("page"), a
\* page with no text ("empty"), or an error record ("error").
Fetched(url, kind) ==
    CASE kind = "page" ->
            [title |-> Lit("page title", 10), url |-> url,
             content |-> Lit("page text", 1500), error |-> FALSE]
      [] kind = "empty" ->
            [title |-> url, url |-> url, content |-> << >>, error |-> FALSE]
      [] kind = "error" ->
            [title |-> url, url |-> url,
             content |-> Lit("Erro ao acessar pagina", 35), error |-> TRUE]

FetchKinds == {"page", "empty", "error"}

\* "not r.get('error')": the error of an adapter entry is a string
EntryValid(r) == ~("error" \in DOMAIN r /\ Truthy(r.error))

Enriched(result, content_data, search_mode) ==
    [title |-> Get(content_data, "title", Get(result, "title", << >>)),
     url |-> result.url,
     snippet |-> Get(result, "snippet", << >>),
     content |-> Get(content_data, "content", << >>),
     error |-> Get(content_data, "error", FALSE),
     source_type |-> Get(result, "source_type", search_mode)]

\* The loop "for result in valid_results" from entry k on: the world and the
\* enriched results so far, in acc.
RECURSIVE ExtractLoop(_, _, _, _, _, _)
ExtractLoop(acc, j, valid_results, fetched, search_mode, k) ==
    IF k > Len(valid_results) THEN acc
    ELSE LET result == valid_results[k]
             url == Get(result, "url", << >>)
         IN  IF ~Truthy(url)
             THEN ExtractLoop(acc, j, valid_results, fetched, search_mode, k + 1)
             ELSE LET content_data == fetched[k]
                      content_length == StrLen(Get(content_data, "content", << >>))
                      w1 == LogStatus(acc.w, j, "Extraindo conteudo", "extract", EmptyDict)
                      w2 == LogStatus(w1, j, "Extraidos caracteres", "extract_detail",
                                [url |-> url, length |-> content_length,
                                 status |-> IF content_length > 1000 THEN "ok" ELSE "baixo",
                                 source |-> search_mode])
                  IN  ExtractLoop(
                          [w |-> w2,
                           enriched |-> Append(acc.enriched,
                                               Enriched(result, content_data, search_mode))],
                          j, valid_results, fetched, search_mode, k + 1)

\* A node that keeps only the results of its own search.
ExtendedResultsReplaced(all_search_results, enriched_results) == enriched_results

\* "all_search_results.extend(enriched_results)"
ExtendedResults(all_search_results, enriched_results) ==
    all_search_results \o enriched_results

execute_search(j, shapes, kinds) ==
    /\ j \in DOMAIN task
    /\ task[j].pc = "execute_search"
    /\ LET st == rstate[j]
           query == st.current_search_query
           search_mode == st.search_mode
           w1 == LogStatus(World, j, "Executando busca", "search",
                           [query |-> query, mode |-> search_mode])
       IN  \E shape \in { s \in shapes : s.n <= AdapterLimit(search_mode) } :
             LET search_results == AdapterOutput(search_mode, shape)
                 valid_results == SelectSeq(search_results, EntryValid)
                 w2 == LogStatus(w1, j, "Encontrados resultados validos", "search",
                           [count |-> Len(valid_results),
                            urls |-> [k \in 1 .. Min(3, Len(valid_results)) |->
                                         Get(valid_results[k], "url", << >>)],
                            source |-> search_mode])
             IN  \E fetch_kind \in [1 .. Len(valid_results) -> kinds] :
                   LET fetched == [k \in 1 .. Len(valid_results) |->
                                      Fetched(Get(valid_results[k], "url", << >>), fetch_kind[k])]
                   IN
                   /\ LET out == ExtractLoop([w |-> w2, enriched |-> << >>], j,
                                             valid_results, fetched, search_mode, 1)
                      IN  /\ SetWorld(LogStatus(out.w, j, "Busca concluida",
                                                "search_complete", EmptyDict))
                          /\ rstate' = Put(rstate, j,
                                 [st EXCEPT !.search_results = ExtendedResults(@, out.enriched)])
                          /\ SetTask(j, [pc |-> "summarize_sites"])
    /\ UNCHANGED <<streams, now>>

---------------------------------------------------------------------------
(* summarize_sites *)

\* s[-n:]
LastN(s, n) == IF Len(s) <= n THEN s ELSE SubSeq(s, Len(s) - n + 1, Len(s))

\* A loop that skips only the results flagged error.
SkippedOnError(result) == Get(result, "error", TRUE)

\* "if result.get('error', True) or not result.get('content'): continue"
Skipped(result) ==
    Get(result, "error", TRUE) \/ ~Truthy(Get(result, "content", << >>))

\* The loop "for i, result in enumerate(recent_results)" from index i on, up
\* to its next LLM call (the position summarize_llm) or to the node's return.
RECURSIVE SummarizeFrom(_, _, _)
SummarizeFrom(w, j, i) ==
    LET st == rstate[j]
        recent_results == LastN(st.search_results, RecentWindow)
    IN  IF i > Len(recent_results)
        THEN [w |-> LogStatus(w, j, "Concluida geracao de resumos",
                              "site_summaries_complete", EmptyDict),
              pc |-> "analyze_results", i |-> 0]
        ELSE IF Skipped(recent_results[i]) THEN SummarizeFrom(w, j, i + 1)
        ELSE [w |-> LogStatus(w, j, "Gerando resumo para", "site_summary", EmptyDict),
              pc |-> "summarize_llm", i |-> i]

summarize_sites(j) ==
    /\ j \in DOMAIN task
    /\ task[j].pc = "summarize_sites"
    /\ LET w1 == LogStatus(World, j, "Iniciando geracao de resumos por site...",
                           "site_summary", EmptyDict)
           next == SummarizeFrom(w1, j, 1)
       IN  /\ SetWorld(next.w)
           /\ SetTask(j, [pc |-> next.pc, i |-> next.i])
           /\ UNCHANGED rstate
    /\ UNCHANGED <<streams, now>>

\* A loop that a failed call ends: the results after index i are left out.
SummaryFailedEndsLoop(w, j, i) ==
    [w |-> LogStatus(LogStatus(InvokeLLMFailed(w, j), j, "Erro ao gerar resumo", "error",
                               EmptyDict),
                     j, "Concluida geracao de resumos", "site_summaries_complete", EmptyDict),
     pc |-> "analyze_results", i |-> 0]

\* "except Exception as e" of the loop, after invoke_llm logged its own
\* error and raised: the error is logged and the loop goes on with i + 1.
SummaryFailed(w, j, i) ==
    SummarizeFrom(LogStatus(InvokeLLMFailed(w, j), j, "Erro ao gerar resumo", "error",
                            EmptyDict),
                  j, i + 1)

\* summarize_sites resumes from "await self.invoke_llm(prompt)" for the
\* result at index task[j].i of the window.
summarize_llm_return(j, texts) ==
    /\ j \in DOMAIN task
    /\ task[j].pc = "summarize_llm"
    /\ \E o \in LLMOutcomes(texts, task[j].llm_failures) :
         LET st == rstate[j]
             i == task[j].i
             result == LastN(st.search_results, RecentWindow)[i]
             source_type == Get(result, "source_type", "site")
         IN  IF o.ok
             THEN LET summary_content == o.text
                      w1 == LogStatus(World, j, "Resumo gerado para", "site_summary_complete",
                                [url |-> Get(result, "url", << >>),
                                 length |-> StrLen(summary_content),
                                 source_type |-> source_type])
                      next == SummarizeFrom(w1, j, i + 1)
                  IN  /\ SetWorld(next.w)
                      /\ rstate' = Put(rstate, j,
                             [st EXCEPT !.site_summaries = Append(@,
                                 [title |-> Get(result, "title", << >>),
                                  url |-> Get(result, "url", << >>),
                                  summary |-> summary_content,
                                  source_type |-> source_type])])
                      /\ SetTask(j, [pc |-> next.pc, i |-> next.i])
             ELSE LET next == SummaryFailed(World, j, i)
                  IN  /\ SetWorld(next.w)
                      /\ SetTask(j, [pc |-> next.pc, i |-> next.i,
                                     llm_failures |-> task[j].llm_failures + 1])
                      /\ UNCHANGED rstate
    /\ UNCHANGED <<streams, now>>

---------------------------------------------------------------------------
(* analyze_results *)

analyze_results(j) ==
    /\ j \in DOMAIN task
    /\ task[j].pc = "analyze_results"
    /\ LET w1 == LogStatus(World, j, "Analisando resultados", "analyze", EmptyDict)
       IN  /\ SetWorld(LogStatus(w1, j, "Processando analise consolidada com LLM...",
                                 "analyze", EmptyDict))
           /\ SetTask(j, [pc |-> "analyze_llm"])
           /\ UNCHANGED rstate
    /\ UNCHANGED <<streams, now>>

\* "analysis_content[:200] + '...' if len(analysis_content) > 200 else analysis_content"
InsightsPreview(analysis_content) ==
    IF StrLen(analysis_content) > PreviewCap
    THEN StrTake(analysis_content, PreviewCap) \o Lit("...", 3)
    ELSE analysis_content

\* The update of the analysis with the new text in place of the old one.
AnalyzedReplacing(st, analysis_content) ==
    [st EXCEPT !.analysis = Lit("\\n\\n", 2) \o analysis_content,
               !.iteration = st.iteration + 1]

\* The update of the analysis with the iteration counter left as it was.
AnalyzedSameIteration(st, analysis_content) ==
    [st EXCEPT !.analysis = @ \o Lit("\\n\\n", 2) \o analysis_content]

\* analyze_results from "Atualiza analise" to its return
Analyzed(st, analysis_content) ==
    [st EXCEPT !.analysis = @ \o Lit("\\n\\n", 2) \o analysis_content,
               !.iteration = st.iteration + 1]

\* analyze_results resumes from "await self.invoke_llm(prompt)"
analyze_llm_return(j, texts) ==
    /\ j \in DOMAIN task
    /\ task[j].pc = "analyze_llm"
    /\ \E o \in LLMOutcomes(texts, task[j].llm_failures) :
         IF o.ok
         THEN LET st == rstate[j]
                  st1 == Analyzed(st, o.text)
              IN  /\ rstate' = Put(rstate, j, st1)
                  /\ SetWorld(LogStatus(World, j, "Analise concluida", "analyze_complete",
                        [iteration |-> st1.iteration, mode |-> st.search_mode,
                         insights_preview |-> InsightsPreview(o.text)]))
                  /\ SetTask(j, [pc |-> "should_continue"])
         ELSE LLMFailurePropagates(j)
    /\ UNCHANGED <<streams, now>>

---------------------------------------------------------------------------
(* should_continue *)

\* Whether a slice holds the marker phrase once lower-cased.
HasSufficiencyPhrase(c) == c.b \in {"informacoes suficientes", "Informacoes Suficientes"}

\* "informações suficientes" in analysis.lower()
ContainsSufficiency(analysis) ==
    \E k \in 1 .. Len(analysis) : HasSufficiencyPhrase(analysis[k]) /\ analysis[k].n >= 23

\* The decision with the length test "len(analysis) >= 2000".
ShouldContinueAtThreshold(st) ==
    LET current_iteration == Get(st, "iteration", 0)
        max_iterations == Get(st, "max_iterations", DefaultMaxIterations)
        analysis == Get(st, "analysis", << >>)
    IN  IF current_iteration >= max_iterations
        THEN [edge |-> "finish", message |-> "Numero maximo de iteracoes atingido"]
        ELSE IF StrLen(analysis) >= AnalysisThreshold /\ ContainsSufficiency(analysis)
        THEN [edge |-> "finish", message |-> "Informacoes suficientes coletadas"]
        ELSE [edge |-> "continue", message |-> "Continuando pesquisa"]

\* The decision without the test of the iteration counter.
ShouldContinueNoLimit(st) ==
    LET analysis == Get(st, "analysis", << >>)
    IN  IF StrLen(analysis) > AnalysisThreshold /\ ContainsSufficiency(analysis)
        THEN [edge |-> "finish", message |-> "Informacoes suficientes coletadas"]
        ELSE [edge |-> "continue", message |-> "Continuando pesquisa"]

\* The decision with the iteration test "current_iteration > max_iterations".
ShouldContinueStrict(st) ==
    LET current_iteration == Get(st, "iteration", 0)
        max_iterations == Get(st, "max_iterations", DefaultMaxIterations)
        analysis == Get(st, "analysis", << >>)
    IN  IF current_iteration > max_iterations
        THEN [edge |-> "finish", message |-> "Numero maximo de iteracoes atingido"]
        ELSE IF StrLen(analysis) > AnalysisThreshold /\ ContainsSufficiency(analysis)
        THEN [edge |-> "finish", message |-> "Informacoes suficientes coletadas"]
        ELSE [edge |-> "continue", message |-> "Continuando pesquisa"]

\* The decision, with the message logged for it.
ShouldContinue(st) ==
    LET current_iteration == Get(st, "iteration", 0)
        max_iterations == Get(st, "max_iterations", DefaultMaxIterations)
        analysis == Get(st, "analysis", << >>)
    IN  IF current_iteration >= max_iterations
        THEN [edge |-> "finish", message |-> "Numero maximo de iteracoes atingido"]
        ELSE IF StrLen(analysis) > AnalysisThreshold /\ ContainsSufficiency(analysis)
        THEN [edge |-> "finish", message |-> "Informacoes suficientes coletadas"]
        ELSE [edge |-> "continue", message |-> "Continuando pesquisa"]

\* The conditional edges with their targets exchanged.
ConditionalEdgeSwapped(edge) ==
    IF edge = "continue" THEN "generate_report" ELSE "plan_search"

\* setup_graph: the conditional edges out of analyze_results
ConditionalEdge(edge) ==
    IF edge = "continue" THEN "plan_search" ELSE "generate_report"

should_continue(j) ==
    /\ j \in DOMAIN task
    /\ task[j].pc = "should_continue"
    /\ LET d == ShouldContinue(rstate[j])
       IN  /\ SetWorld(LogStatus(World, j, d.message, "decision", EmptyDict))
           /\ SetTask(j, [pc |-> ConditionalEdge(d.edge)])
           /\ UNCHANGED rstate
    /\ UNCHANGED <<streams, now>>

---------------------------------------------------------------------------
(* generate_report *)

SourceTypes == <<"wikipedia", "arxiv", "google", "other">>

\* The type a summary is listed under.
ReportType(summary) ==
    LET ty == Get(summary, "source_type", None)
    IN  IF ty \in {"google", "arxiv", "wikipedia"} THEN ty ELSE "other"

\* The entries "sources.append({...})" adds for the summaries of one type.
RECURSIVE SourcesOfType(_, _)
SourcesOfType(summaries, ty) ==
    IF summaries = << >> THEN << >>
    ELSE LET summary == Head(summaries)
             rest == SourcesOfType(Tail(summaries), ty)
         IN  IF ReportType(summary) = ty
                /\ Truthy(Get(summary, "url", << >>)) /\ Truthy(Get(summary, "title", << >>))
             THEN <<[title |-> summary.title, url |-> summary.url, type |-> ty]>> \o rest
             ELSE rest

\* sources with the block of the general sources processed first.
CollectSourcesGeneralFirst(summaries) ==
    SourcesOfType(summaries, "google") \o SourcesOfType(summaries, "wikipedia")
    \o SourcesOfType(summaries, "arxiv") \o SourcesOfType(summaries, "other")

\* sources, in the order the four blocks append to it
CollectSources(summaries) ==
    SourcesOfType(summaries, "wikipedia") \o SourcesOfType(summaries, "arxiv")
    \o SourcesOfType(summaries, "google") \o SourcesOfType(summaries, "other")

\* The removal of duplicates with a source told apart by its url and type.
RECURSIVE UniqueSourcesPerType(_, _)
UniqueSourcesPerType(sources, seen_urls) ==
    IF sources = << >> THEN << >>
    ELSE IF <<Head(sources).url, Head(sources).type>> \notin seen_urls
    THEN <<Head(sources)>>
         \o UniqueSourcesPerType(Tail(sources),
                seen_urls \cup {<<Head(sources).url, Head(sources).type>>})
    ELSE UniqueSourcesPerType(Tail(sources), seen_urls)

\* "Remove duplicatas mantendo a informacao de tipo"
RECURSIVE UniqueSources(_, _)
UniqueSources(sources, seen_urls) ==
    IF sources = << >> THEN << >>
    ELSE IF Head(sources).url \notin seen_urls
    THEN <<Head(sources)>> \o UniqueSources(Tail(sources), seen_urls \cup {Head(sources).url})
    ELSE UniqueSources(Tail(sources), seen_urls)

TypeHeader(ty) ==
    CASE ty = "wikipedia" -> Lit("### Fontes Enciclopedicas (Wikipedia)", 39)
      [] ty = "arxiv" -> Lit("### Fontes Academicas (arXiv)", 31)
      [] ty = "google" -> Lit("### Fontes Gerais", 19)
      [] OTHER -> Lit("### Outras Fontes", 19)

RECURSIVE SourceLines(_)
SourceLines(sources) ==
    IF sources = << >> THEN << >>
    ELSE Lit("- ", 2) \o Head(sources).title \o Lit(" (", 2) \o Head(sources).url
         \o Lit(")\\n", 2) \o SourceLines(Tail(sources))

\* sources_text
RECURSIVE SourcesText(_, _)
SourcesText(unique_sources, k) ==
    IF k > Len(SourceTypes) THEN << >>
    ELSE LET of_type == SelectSeq(unique_sources, LAMBDA x : x.type = SourceTypes[k])
         IN  (IF of_type = << >> THEN << >>
              ELSE TypeHeader(SourceTypes[k]) \o SourceLines(of_type))
             \o SourcesText(unique_sources, k + 1)

generate_report(j) ==
    /\ j \in DOMAIN task
    /\ task[j].pc = "generate_report"
    /\ LET st == rstate[j]
           unique_sources == UniqueSources(CollectSources(st.site_summaries), {})
           w1 == LogStatus(World, j, "Gerando relatorio final...", "report", EmptyDict)
           w2 == LogStatus(w1, j, "Compilando dados", "report",
                    [total_results |-> Len(st.search_results),
                     total_queries |-> Len(st.search_queries),
                     sources_count |-> Len(unique_sources)])
       IN  /\ SetWorld(LogStatus(w2, j, "Processando relatorio final com LLM...",
                                 "report", EmptyDict))
           /\ rstate' = Put(rstate, j,
                            [st EXCEPT !.sources = SourcesText(unique_sources, 1)])
           /\ SetTask(j, [pc |-> "report_llm"])
    /\ UNCHANGED <<streams, now>>

\* generate_report resumes from "await self.invoke_llm(prompt)"
report_llm_return(j, texts) ==
    /\ j \in DOMAIN task
    /\ task[j].pc = "report_llm"
    /\ \E o \in LLMOutcomes(texts, task[j].llm_failures) :
         IF o.ok
         THEN /\ rstate' = Put(rstate, j, [rstate[j] EXCEPT !.final_report = o.text])
              /\ SetWorld(LogStatus(World, j, "Relatorio final gerado com sucesso!",
                    "report_complete", [report_length |-> StrLen(o.text)]))
              /\ SetTask(j, [pc |-> "graph_end"])
         ELSE LLMFailurePropagates(j)
    /\ UNCHANGED <<streams, now>>

\* research(): the default report built when final_report is empty
\* A research() that returns the empty report as it is.
DefaultReportEmpty(final_state) == Get(final_state, "final_report", << >>)

DefaultReport(final_state) ==
    Lit("# Relatorio de Pesquisa: ", 25) \o final_state.query
    \o Lit("## Fontes consultadas", 23) \o final_state.sources
    \o Lit("## Analise", 12) \o final_state.analysis

\* research() from the return of graph.ainvoke to "return final_report"
research_returns(j) ==
    /\ j \in DOMAIN task
    /\ task[j].pc = "graph_end"
    /\ LET final_state == rstate[j]
           w1 == LogStatus(World, j, "Pesquisa concluida com sucesso!", "complete", EmptyDict)
           final_report == Get(final_state, "final_report", << >>)
       IN  IF ~Truthy(final_report)
           THEN /\ SetWorld(LogStatus(w1, j, "AVISO: Relatorio final vazio", "warning", EmptyDict))
                /\ SetTask(j, [pc |-> "returned", retval |-> DefaultReport(final_state)])
           ELSE /\ SetWorld(w1)
                /\ SetTask(j, [pc |-> "returned", retval |-> final_report])
    /\ UNCHANGED rstate
    /\ UNCHANGED <<streams, now>>

---------------------------------------------------------------------------
(* GET /research/stream/{research_id} *)

\* The connections a run opens.
StreamIds == {"s1", "s2"}

create_sse_message(event_type, data) == [event |-> event_type, data |-> data]

\* "if events and events[-1]['type'] in ['complete', 'error', 'cancelled']"
StreamEndTypes == {"complete", "error", "cancelled"}

\* event_stream's locals: the job, the position of the generator, the cursor,
\* and out, the SSE messages yielded so far.  The ": heartbeat" comment lines
\* are not messages and are left out of out; yielding one reads and writes
\* nothing shared.  The positions are "connected" (suspended at the yield of
\* connected), "relay" (suspended at the yield of an event), "loop" (in the
\* sleep at the end of the while body), "timed_out" (suspended at the yield
\* of timeout), "closed" (the generator has ended) and "gone" (the client
\* went away and event_generator left the loop).
NewStream(research_id, pc, out) ==
    [research_id |-> research_id, pc |-> pc, sent_index |-> 0, out |-> out]

SetStream(s, st) == streams' = Put(streams, s, st)

Disconnected == create_sse_message("disconnected", [message |-> "Stream finalizado"])

\* research_stream: the error response for an id with no event log, else the
\* generator up to its first yield.  As for DELETE, a client holds the id of
\* a job only after that job's task has started.
research_stream(s, research_id) ==
    /\ s \notin DOMAIN streams
    /\ research_id \in DOMAIN task => task[research_id].pc # "created"
    /\ IF research_id \notin DOMAIN research_events
       THEN SetStream(s, NewStream(research_id, "closed",
                <<create_sse_message("error", [message |-> "Pesquisa nao encontrada"])>>))
       ELSE SetStream(s, NewStream(research_id, "connected",
                <<create_sse_message("connected",
                    [message |-> "Conectado ao stream de eventos",
                     research_id |-> research_id])>>))
    /\ UNCHANGED <<research_tasks, research_events, task, rstate, now>>

\* event_stream, "Verifica resultado disponivel": the event log after it.
\* Reading research_events[research_id] creates the key (defaultdict).
CompletionChecked(w, research_id) ==
    IF research_id \in DOMAIN w.tasks
       /\ Get(w.tasks[research_id], "status", None) = "completed"
    THEN LET log == EventsOf(w.events, research_id)
             completion_sent == \E i \in 1 .. Len(log) : log[i].type = "complete"
         IN  IF ~completion_sent /\ "result" \in DOMAIN w.tasks[research_id]
             THEN AppendEvent(w.events, research_id,
                      [type |-> "complete",
                       data |-> [message |-> "Pesquisa concluida com sucesso",
                                 result |-> w.tasks[research_id].result]])
             ELSE Put(w.events, research_id, log)
    ELSE w.events

\* Relay with the cursor counted from the end of the log: the newest event
\* not yet sent goes first.
RelayNewestFirst(st, events) ==
    IF st.research_id \notin DOMAIN events THEN [st EXCEPT !.pc = "loop"]
    ELSE LET log == events[st.research_id]
         IN  IF st.sent_index < Len(log)
             THEN LET event == log[Len(log) - st.sent_index]
                  IN  [st EXCEPT !.out = Append(@, create_sse_message(event.type, event.data)),
                                 !.sent_index = @ + 1,
                                 !.pc = "relay"]
             ELSE IF log # << >> /\ log[Len(log)].type \in StreamEndTypes
             THEN [st EXCEPT !.out = Append(@, Disconnected), !.pc = "closed"]
             ELSE [st EXCEPT !.pc = "loop"]

\* event_stream, "Processa eventos pendentes", from the test of the inner
\* while to the next suspension: the yield of the next event, the end of the
\* generator after the break, or the sleep.
Relay(st, events) ==
    IF st.research_id \notin DOMAIN events THEN [st EXCEPT !.pc = "loop"]
    ELSE LET log == events[st.research_id]
         IN  IF st.sent_index < Len(log)
             THEN LET event == log[st.sent_index + 1]
                  IN  [st EXCEPT !.out = Append(@, create_sse_message(event.type, event.data)),
                                 !.sent_index = @ + 1,
                                 !.pc = "relay"]
             ELSE IF log # << >> /\ log[Len(log)].type \in StreamEndTypes
             THEN [st EXCEPT !.out = Append(@, Disconnected), !.pc = "closed"]
             ELSE [st EXCEPT !.pc = "loop"]

\* One pass of "while True" that finds the lifetime not exceeded: from the
\* first pass after connected, or from the end of a sleep.
event_stream_poll(s) ==
    /\ s \in DOMAIN streams
    /\ streams[s].pc \in {"connected", "loop"}
    /\ LET events == CompletionChecked(World, streams[s].research_id)
       IN  /\ research_events' = events
           /\ SetStream(s, Relay(streams[s], events))
    /\ UNCHANGED <<research_tasks, task, rstate, now>>

\* The generator resumes from the yield of an event.
event_stream_relay(s) ==
    /\ s \in DOMAIN streams
    /\ streams[s].pc = "relay"
    /\ SetStream(s, Relay(streams[s], research_events))
    /\ UNCHANGED <<research_tasks, research_events, task, rstate, now>>

\* A pass of "while True" that starts after a sleep and finds
\* current_time - start_time > max_wait_time.  The model keeps no clock: the
\* lifetime can be found exceeded after any sleep.
event_stream_timeout(s) ==
    /\ s \in DOMAIN streams
    /\ streams[s].pc = "loop"
    /\ SetStream(s, [streams[s] EXCEPT
            !.out = Append(@, create_sse_message("timeout", [message |-> "Timeout do stream"])),
            !.pc = "timed_out"])
    /\ UNCHANGED <<research_tasks, research_events, task, rstate, now>>

\* "Verifica se temos resultado parcial para enviar": the messages yielded
\* after timeout, up to the end of the generator.
LifetimeMessages(tasks, research_id) ==
    (IF research_id \in DOMAIN tasks /\ "partial_result" \in DOMAIN tasks[research_id]
     THEN <<create_sse_message("complete",
                [message |-> "Pesquisa concluida parcialmente devido a timeout",
                 result |-> tasks[research_id].partial_result])>>
     ELSE << >>)
    \o <<Disconnected>>

\* The generator resumes from the yield of timeout.
event_stream_expired(s) ==
    /\ s \in DOMAIN streams
    /\ streams[s].pc = "timed_out"
    /\ SetStream(s, [streams[s] EXCEPT
            !.out = @ \o LifetimeMessages(research_tasks, streams[s].research_id),
            !.pc = "closed"])
    /\ UNCHANGED <<research_tasks, research_events, task, rstate, now>>

\* event_generator finds request.is_disconnected() and leaves its loop.
client_disconnected(s) ==
    /\ s \in DOMAIN streams
    /\ streams[s].pc \in {"connected", "relay", "loop", "timed_out"}
    /\ SetStream(s, [streams[s] EXCEPT !.pc = "gone"])
    /\ UNCHANGED <<research_tasks, research_events, task, rstate, now>>

---------------------------------------------------------------------------
(* The specification *)

\* The Content Fetcher reaches every page.
ReachablePages == {"page"}

\* What the Text Generator answers to each kind of prompt.
PlanTexts == { Lit(" ", 1) \o Lit("refined query", 13) \o Lit(" ", 1) }
SummaryTexts == { Lit("summary", 900) }
\* The second text is long and holds the sufficiency phrase.
AnalysisTexts == { Lit("analysis", 300), Lit("informacoes suficientes", 2500) }
ReportTexts == { Lit("report", 5000) }

Init ==
    /\ research_tasks = EmptyDict
    /\ research_events = EmptyDict
    /\ task = EmptyDict
    /\ rstate = EmptyDict
    /\ streams = EmptyDict
    /\ now = 0

Next ==
    \/ \E j \in JobIds, request \in SubmittedRequests : research_endpoint(j, request)
    \/ \E j \in JobIds : cancel_research(j)
    \/ \E j \in JobIds : execute_research_start(j)
    \/ \E j \in JobIds : execute_research_completed(j)
    \/ \E j \in JobIds : execute_research_timeout(j)
    \/ \E j \in JobIds : plan_search(j)
    \/ \E j \in JobIds : plan_llm_return(j, PlanTexts)
    \/ \E j \in JobIds : execute_search(j, AdapterShapes, ReachablePages)
    \/ \E j \in JobIds : summarize_sites(j)
    \/ \E j \in JobIds : summarize_llm_return(j, SummaryTexts)
    \/ \E j \in JobIds : analyze_results(j)
    \/ \E j \in JobIds : analyze_llm_return(j, AnalysisTexts)
    \/ \E j \in JobIds : should_continue(j)
    \/ \E j \in JobIds : generate_report(j)
    \/ \E j \in JobIds : report_llm_return(j, ReportTexts)
    \/ \E j \in JobIds : research_returns(j)

Spec == Init /\ [][Next]_vars

\* The service with one stream subscriber, for requests of one iteration.
OneStream == {"s1"}

StreamRequests ==
    { r \in Requests :
        r.llm_provider = "ollama" /\ r.api_key = None /\ r.max_iterations = 1 }

NextStream ==
    \/ \E j \in JobIds, request \in StreamRequests : research_endpoint(j, request)
    \/ \E j \in JobIds : cancel_research(j)
    \/ \E j \in JobIds : execute_research_start(j)
    \/ \E j \in JobIds : execute_research_completed(j)
    \/ \E j \in JobIds : execute_research_timeout(j)
    \/ \E j \in JobIds : plan_search(j)
    \/ \E j \in JobIds : execute_search(j, AdapterShapes, ReachablePages)
    \/ \E j \in JobIds : summarize_sites(j)
    \/ \E j \in JobIds : summarize_llm_return(j, SummaryTexts)
    \/ \E j \in JobIds : analyze_results(j)
    \/ \E j \in JobIds : analyze_llm_return(j, AnalysisTexts)
    \/ \E j \in JobIds : should_continue(j)
    \/ \E j \in JobIds : generate_report(j)
    \/ \E j \in JobIds : report_llm_return(j, ReportTexts)
    \/ \E j \in JobIds : research_returns(j)
    \/ \E s \in OneStream, j \in JobIds : research_stream(s, j)
    \/ \E s \in OneStream : event_stream_poll(s)
    \/ \E s \in OneStream : event_stream_relay(s)
    \/ \E s \in OneStream : event_stream_timeout(s)
    \/ \E s \in OneStream : event_stream_expired(s)
    \/ \E s \in OneStream : client_disconnected(s)

SpecStream == Init /\ [][NextStream]_vars

\* Two jobs at once: two ids, each with a request of one iteration that
\* passes the validations and has a query of its own, every interleaving of
\* the two tasks' steps, cancel requests and deadlines.
TwoJobs == {"job1", "job2"}

TwoJobRequest(j) ==
    [query |-> IF j = "job1" THEN Lit("q", 1) ELSE Lit("other q", 7),
     llm_provider |-> "ollama", api_key |-> None, max_iterations |-> 1]

ShortAnalysis == { Lit("analysis", 300) }

NextTwoJobs ==
    \/ \E j \in TwoJobs : research_endpoint(j, TwoJobRequest(j))
    \/ \E j \in TwoJobs : cancel_research(j)
    \/ \E j \in TwoJobs : execute_research_start(j)
    \/ \E j \in TwoJobs : execute_research_completed(j)
    \/ \E j \in TwoJobs : execute_research_timeout(j)
    \/ \E j \in TwoJobs : plan_search(j)
    \/ \E j \in TwoJobs : execute_search(j, AdapterShapes, ReachablePages)
    \/ \E j \in TwoJobs : summarize_sites(j)
    \/ \E j \in TwoJobs : summarize_llm_return(j, SummaryTexts)
    \/ \E j \in TwoJobs : analyze_results(j)
    \/ \E j \in TwoJobs : analyze_llm_return(j, ShortAnalysis)
    \/ \E j \in TwoJobs : should_continue(j)
    \/ \E j \in TwoJobs : generate_report(j)
    \/ \E j \in TwoJobs : report_llm_return(j, ReportTexts)
    \/ \E j \in TwoJobs : research_returns(j)

SpecTwoJobs == Init /\ [][NextTwoJobs]_vars

---------------------------------------------------------------------------
(* GET /cleanup-old-research *)

HoursPerDay == 24

\* timedelta.days of a difference of hours: the whole days in it, rounded down.
Days(hours) == hours \div HoursPerDay

\* d without the keys in removed
Without(d, removed) == [k \in DOMAIN d \ removed |-> d[k]]

\* The loop of cleanup_old_research with "days > 1" for its test.
CleanedUpAfterTwoDays(w, at) ==
    LET old == { research_id \in DOMAIN w.tasks :
                   /\ "start_time" \in DOMAIN w.tasks[research_id]
                   /\ Days(at - w.tasks[research_id].start_time) > 1 }
    IN  [tasks |-> Without(w.tasks, old), events |-> Without(w.events, old)]

\* A loop of cleanup_old_research that deletes the records and leaves the
\* logs.
CleanedUpRecordsOnly(w, at) ==
    LET old == { research_id \in DOMAIN w.tasks :
                   /\ "start_time" \in DOMAIN w.tasks[research_id]
                   /\ Days(at - w.tasks[research_id].start_time) >= 1 }
    IN  [tasks |-> Without(w.tasks, old), events |-> w.events]

\* The loop of cleanup_old_research: the two stores it leaves at time at.
CleanedUp(w, at) ==
    LET old == { research_id \in DOMAIN w.tasks :
                   /\ "start_time" \in DOMAIN w.tasks[research_id]
                   /\ Days(at - w.tasks[research_id].start_time) >= 1 }
    IN  [tasks |-> Without(w.tasks, old), events |-> Without(w.events, old)]

cleanup_old_research ==
    /\ SetWorld(CleanedUp(World, now))
    /\ UNCHANGED <<task, rstate, streams, now>>

\* The clock advances by HoursPerTick, up to MaxClock.  A job ends within
\* its deadline of 30 minutes, so by the next tick every task has ended.
HoursPerTick == 12
MaxClock == 48

tick ==
    /\ now < MaxClock
    /\ \A j \in DOMAIN task : task[j].pc = "done"
    /\ now' = now + HoursPerTick
    /\ UNCHANGED <<research_tasks, research_events, task, rstate, streams>>

\* Cleanup: two jobs submitted at any tick, with a request that passes the
\* validations or one with an empty query, adapters that fail, and cleanup
\* requests at any moment.
CleanupRequests(j) == { TwoJobRequest(j), [TwoJobRequest(j) EXCEPT !.query = << >>] }

FailedSearch == { [failed |-> TRUE, n |-> 0] }

NextCleanup ==
    \/ \E j \in TwoJobs : \E request \in CleanupRequests(j) : research_endpoint(j, request)
    \/ \E j \in TwoJobs : execute_research_start(j)
    \/ \E j \in TwoJobs : execute_research_completed(j)
    \/ \E j \in TwoJobs : plan_search(j)
    \/ \E j \in TwoJobs : execute_search(j, FailedSearch, ReachablePages)
    \/ \E j \in TwoJobs : summarize_sites(j)
    \/ \E j \in TwoJobs : analyze_results(j)
    \/ \E j \in TwoJobs : analyze_llm_return(j, ShortAnalysis)
    \/ \E j \in TwoJobs : should_continue(j)
    \/ \E j \in TwoJobs : generate_report(j)
    \/ \E j \in TwoJobs : report_llm_return(j, ReportTexts)
    \/ \E j \in TwoJobs : research_returns(j)
    \/ tick
    \/ cleanup_old_research

SpecCleanup == Init /\ [][NextCleanup]_vars

\* The whole service around one job: submit, the pipeline with its deadline,
\* cancel, a stream subscriber that asks for the job or for an id that was
\* never issued, the clock and cleanup.
NextRegistry ==
    \/ \E j \in JobIds : \E request \in CleanupRequests(j) : research_endpoint(j, request)
    \/ \E j \in JobIds : cancel_research(j)
    \/ \E j \in JobIds : execute_research_start(j)
    \/ \E j \in JobIds : execute_research_completed(j)
    \/ \E j \in JobIds : execute_research_timeout(j)
    \/ \E j \in JobIds : plan_search(j)
    \/ \E j \in JobIds : execute_search(j, FailedSearch, ReachablePages)
    \/ \E j \in JobIds : summarize_sites(j)
    \/ \E j \in JobIds : analyze_results(j)
    \/ \E j \in JobIds : analyze_llm_return(j, ShortAnalysis)
    \/ \E j \in JobIds : should_continue(j)
    \/ \E j \in JobIds : generate_report(j)
    \/ \E j \in JobIds : report_llm_return(j, ReportTexts)
    \/ \E j \in JobIds : research_returns(j)
    \/ \E s \in OneStream, j \in TwoJobs : research_stream(s, j)
    \/ \E s \in OneStream : event_stream_poll(s)
    \/ \E s \in OneStream : event_stream_relay(s)
    \/ \E s \in OneStream : event_stream_timeout(s)
    \/ \E s \in OneStream : event_stream_expired(s)
    \/ \E s \in OneStream : client_disconnected(s)
    \/ tick
    \/ cleanup_old_research

SpecRegistry == Init /\ [][NextRegistry]_vars

---------------------------------------------------------------------------
(* GET /health *)

\* A health_check whose failed count leaves the cancelled jobs out.
health_check_without_cancelled(tasks) ==
    LET With(statuses) ==
            Cardinality({ task_id \in DOMAIN tasks :
                            Get(tasks[task_id], "status", "unknown") \in statuses })
    IN  [active |-> With({"started", "running"}),
         completed |-> With({"completed"}),
         failed |-> With({"failed", "timeout"}),
         total |-> Cardinality(DOMAIN tasks)]

\* health_check: the "tasks" part of the response.
health_check(tasks) ==
    LET With(statuses) ==
            Cardinality({ task_id \in DOMAIN tasks :
                            Get(tasks[task_id], "status", "unknown") \in statuses })
    IN  [active |-> With({"started", "running"}),
         completed |-> With({"completed"}),
         failed |-> With({"failed", "timeout", "cancelled"}),
         total |-> Cardinality(DOMAIN tasks)]

\* Two jobs that end in every way a job can end: completed, failed on an
\* empty query, cancelled, or timed out.
NextHealth ==
    \/ \E j \in TwoJobs : \E request \in CleanupRequests(j) : research_endpoint(j, request)
    \/ \E j \in TwoJobs : cancel_research(j)
    \/ \E j \in TwoJobs : execute_research_start(j)
    \/ \E j \in TwoJobs : execute_research_completed(j)
    \/ \E j \in TwoJobs : execute_research_timeout(j)
    \/ \E j \in TwoJobs : plan_search(j)
    \/ \E j \in TwoJobs : execute_search(j, FailedSearch, ReachablePages)
    \/ \E j \in TwoJobs : summarize_sites(j)
    \/ \E j \in TwoJobs : analyze_results(j)
    \/ \E j \in TwoJobs : analyze_llm_return(j, ShortAnalysis)
    \/ \E j \in TwoJobs : should_continue(j)
    \/ \E j \in TwoJobs : generate_report(j)
    \/ \E j \in TwoJobs : report_llm_return(j, ReportTexts)
    \/ \E j \in TwoJobs : research_returns(j)

SpecHealth == Init /\ [][NextHealth]_vars

---------------------------------------------------------------------------
(* Outcomes *)

\* One job that ends in every way a job can end, with a Text Generator
\* whose report may be the empty string.
ReportOrNothing == { << >>, Lit("report", 5000) }

NextOutcome ==
    \/ \E j \in JobIds : \E request \in CleanupRequests(j) : research_endpoint(j, request)
    \/ \E j \in JobIds : cancel_research(j)
    \/ \E j \in JobIds : execute_research_start(j)
    \/ \E j \in JobIds : execute_research_completed(j)
    \/ \E j \in JobIds : execute_research_timeout(j)
    \/ \E j \in JobIds : plan_search(j)
    \/ \E j \in JobIds : execute_search(j, AdapterShapes, ReachablePages)
    \/ \E j \in JobIds : summarize_sites(j)
    \/ \E j \in JobIds : summarize_llm_return(j, SummaryTexts)
    \/ \E j \in JobIds : analyze_results(j)
    \/ \E j \in JobIds : analyze_llm_return(j, AnalysisTexts)
    \/ \E j \in JobIds : should_continue(j)
    \/ \E j \in JobIds : generate_report(j)
    \/ \E j \in JobIds : report_llm_return(j, ReportOrNothing)
    \/ \E j \in JobIds : research_returns(j)

SpecOutcome == Init /\ [][NextOutcome]_vars

---------------------------------------------------------------------------
(* Long runs *)

\* A job that asks for up to MaxLongRun iterations, with adapters that fail
\* and a short analysis, so that DECIDE continues until max_iterations and
\* PLAN goes through the schedule more than once.
MaxLongRun == 10

LongRunRequests ==
    { [TwoJobRequest("job1") EXCEPT !.max_iterations = m] : m \in 1 .. MaxLongRun }

NextLongRun ==
    \/ \E j \in JobIds, request \in LongRunRequests : research_endpoint(j, request)
    \/ \E j \in JobIds : execute_research_start(j)
    \/ \E j \in JobIds : execute_research_completed(j)
    \/ \E j \in JobIds : plan_search(j)
    \/ \E j \in JobIds : plan_llm_return(j, PlanTexts)
    \/ \E j \in JobIds : execute_search(j, FailedSearch, ReachablePages)
    \/ \E j \in JobIds : summarize_sites(j)
    \/ \E j \in JobIds : analyze_results(j)
    \/ \E j \in JobIds : analyze_llm_return(j, ShortAnalysis)
    \/ \E j \in JobIds : should_continue(j)
    \/ \E j \in JobIds : generate_report(j)
    \/ \E j \in JobIds : report_llm_return(j, ReportTexts)
    \/ \E j \in JobIds : research_returns(j)

SpecLongRun == Init /\ [][NextLongRun]_vars

---------------------------------------------------------------------------
(* Wide searches *)

\* A job of up to three iterations whose adapters fail or return any number
\* of entries up to their limit, every page being reachable.
MaxWideResults == 5
MaxWideIterations == 3

WideShapes ==
    { [failed |-> FALSE, n |-> n] : n \in 0 .. MaxWideResults }
    \cup { [failed |-> TRUE, n |-> 0] }

WideRequests ==
    { [TwoJobRequest("job1") EXCEPT !.max_iterations = m] : m \in 1 .. MaxWideIterations }

NextWideSearch ==
    \/ \E j \in JobIds, request \in WideRequests : research_endpoint(j, request)
    \/ \E j \in JobIds : execute_research_start(j)
    \/ \E j \in JobIds : execute_research_completed(j)
    \/ \E j \in JobIds : plan_search(j)
    \/ \E j \in JobIds : execute_search(j, WideShapes, ReachablePages)
    \/ \E j \in JobIds : summarize_sites(j)
    \/ \E j \in JobIds : summarize_llm_return(j, SummaryTexts)
    \/ \E j \in JobIds : analyze_results(j)
    \/ \E j \in JobIds : analyze_llm_return(j, ShortAnalysis)
    \/ \E j \in JobIds : should_continue(j)
    \/ \E j \in JobIds : generate_report(j)
    \/ \E j \in JobIds : report_llm_return(j, ReportTexts)
    \/ \E j \in JobIds : research_returns(j)

SpecWideSearch == Init /\ [][NextWideSearch]_vars

\* One job of up to three iterations whose analyses may be the empty
\* string, with cancel requests, the deadline and a stream subscriber.
AnalysisOrNothing == ShortAnalysis \cup { << >> }

NextPartial ==
    \/ \E j \in JobIds, request \in WideRequests : research_endpoint(j, request)
    \/ \E j \in JobIds : cancel_research(j)
    \/ \E j \in JobIds : execute_research_start(j)
    \/ \E j \in JobIds : execute_research_completed(j)
    \/ \E j \in JobIds : execute_research_timeout(j)
    \/ \E j \in JobIds : plan_search(j)
    \/ \E j \in JobIds : execute_search(j, FailedSearch, ReachablePages)
    \/ \E j \in JobIds : summarize_sites(j)
    \/ \E j \in JobIds : analyze_results(j)
    \/ \E j \in JobIds : analyze_llm_return(j, AnalysisOrNothing)
    \/ \E j \in JobIds : should_continue(j)
    \/ \E j \in JobIds : generate_report(j)
    \/ \E j \in JobIds : report_llm_return(j, ReportTexts)
    \/ \E j \in JobIds : research_returns(j)
    \/ \E s \in OneStream, j \in JobIds : research_stream(s, j)
    \/ \E s \in OneStream : event_stream_poll(s)
    \/ \E s \in OneStream : event_stream_relay(s)
    \/ \E s \in OneStream : event_stream_timeout(s)
    \/ \E s \in OneStream : event_stream_expired(s)
    \/ \E s \in OneStream : client_disconnected(s)

SpecPartial == Init /\ [][NextPartial]_vars

\* Scenario A: requests of one iteration that pass the validations, adapters
\* that return two valid entries for every search, and no cancel request and
\* no deadline.
ScenarioARequests ==
    { r \in Requests : r.max_iterations = 1 /\ ~Truthy(ValidationError(r)) }

TwoResults == { [failed |-> FALSE, n |-> 2] }

NextScenarioA ==
    \/ \E j \in JobIds, request \in ScenarioARequests : research_endpoint(j, request)
    \/ \E j \in JobIds : execute_research_start(j)
    \/ \E j \in JobIds : execute_research_completed(j)
    \/ \E j \in JobIds : plan_search(j)
    \/ \E j \in JobIds : execute_search(j, TwoResults, FetchKinds)
    \/ \E j \in JobIds : summarize_sites(j)
    \/ \E j \in JobIds : summarize_llm_return(j, SummaryTexts)
    \/ \E j \in JobIds : analyze_results(j)
    \/ \E j \in JobIds : analyze_llm_return(j, AnalysisTexts)
    \/ \E j \in JobIds : should_continue(j)
    \/ \E j \in JobIds : generate_report(j)
    \/ \E j \in JobIds : report_llm_return(j, ReportTexts)
    \/ \E j \in JobIds : research_returns(j)

SpecScenarioA == Init /\ [][NextScenarioA]_vars

\* Scenario D: jobs of valid requests whose adapters may fail or return no
\* entry in any iteration, with no cancel request and no deadline. The event
\* loop resumes a coroutine that is ready, and a Text Generator call returns
\* or raises: the steps of SUMMARIZE and ANALYZE are taken when enabled.
ScenarioDRequests == { r \in SubmittedRequests : ~Truthy(ValidationError(r)) }

NextScenarioD ==
    \/ \E j \in JobIds, request \in ScenarioDRequests : research_endpoint(j, request)
    \/ \E j \in JobIds : execute_research_start(j)
    \/ \E j \in JobIds : execute_research_completed(j)
    \/ \E j \in JobIds : plan_search(j)
    \/ \E j \in JobIds : plan_llm_return(j, PlanTexts)
    \/ \E j \in JobIds : execute_search(j, AdapterShapes, FetchKinds)
    \/ \E j \in JobIds : summarize_sites(j)
    \/ \E j \in JobIds : summarize_llm_return(j, SummaryTexts)
    \/ \E j \in JobIds : analyze_results(j)
    \/ \E j \in JobIds : analyze_llm_return(j, AnalysisTexts)
    \/ \E j \in JobIds : should_continue(j)
    \/ \E j \in JobIds : generate_report(j)
    \/ \E j \in JobIds : report_llm_return(j, ReportTexts)
    \/ \E j \in JobIds : research_returns(j)

SpecScenarioD ==
    /\ Init
    /\ [][NextScenarioD]_vars
    /\ \A j \in JobIds :
        /\ WF_vars(summarize_sites(j))
        /\ WF_vars(summarize_llm_return(j, SummaryTexts))
        /\ WF_vars(analyze_results(j))
        /\ WF_vars(analyze_llm_return(j, AnalysisTexts))

\* The pipeline left to itself: the steps of scenario D, with no cancel
\* request and no deadline.  The event loop resumes a coroutine that is
\* ready and every collaborator call returns or raises, so a task that is
\* not done takes its next step: weak fairness of the steps of each task.
\* A task that is not done has a step enabled, and the steps of a task are
\* the steps that change its position (pc, i), so WF_vars of the task's steps
\* is written with these two in place of ENABLED and of the steps.
TaskReady(j) == IF j \in DOMAIN task THEN task[j].pc # "done" ELSE FALSE

TaskMoved(j) ==
    IF j \in DOMAIN task
    THEN <<task'[j].pc, task'[j].i>> # <<task[j].pc, task[j].i>>
    ELSE FALSE

SpecFairPipeline ==
    /\ Init
    /\ [][NextScenarioD]_vars
    /\ \A j \in JobIds : []<>(~TaskReady(j)) \/ []<><<TaskMoved(j)>>_vars

\* REPORT on its own: a pipeline that reaches generate_report holding any
\* list of site summaries, over two urls, the four kinds of source type, and
\* titles and urls that may be empty.
ReportUrls == { << >>, Lit("https://a", 9), Lit("https://b", 9) }
ReportTitles == { << >>, Lit("title", 5) }
ReportSourceTypes == {"google", "arxiv", "wikipedia", "site"}

SiteSummaries ==
    [title : ReportTitles, url : ReportUrls, summary : SummaryTexts,
     source_type : ReportSourceTypes]

SummaryLists == UNION { [1 .. n -> SiteSummaries] : n \in 0 .. MaxSummaries }

ReportRequest ==
    [query |-> Lit("q", 1), llm_provider |-> "ollama", api_key |-> None, max_iterations |-> 1]

InitReport ==
    /\ research_tasks =
          ("job1" :> [status |-> "running",
                      query |-> ReportRequest.query,
                      config |-> [provider |-> ReportRequest.llm_provider,
                                  max_iterations |-> ReportRequest.max_iterations],
                      progress |-> ProgressStart,
                      partial_result |-> << >>])
    /\ research_events = ("job1" :> << >>)
    /\ task = ("job1" :> [NewTask(None) EXCEPT !.pc = "generate_report"])
    /\ \E summaries \in SummaryLists :
          rstate = ("job1" :>
                      [InitialState(ReportRequest.query, ReportRequest.max_iterations)
                          EXCEPT !.site_summaries = summaries, !.iteration = 1])
    /\ streams = EmptyDict
    /\ now = 0

NextReport ==
    \/ \E j \in JobIds : generate_report(j)
    \/ \E j \in JobIds : report_llm_return(j, ReportTexts)
    \/ \E j \in JobIds : research_returns(j)
    \/ \E j \in JobIds : execute_research_completed(j)

SpecReport == InitReport /\ [][NextReport]_vars

\* DECIDE on its own: a pipeline that reaches should_continue after any
\* number of iterations it can have made, for any max_iterations and with a cumulative
\* analysis of 2000 characters, of one more or one less, with the phrase in
\* lower case, capitalised, cut short or absent.
Filler(n) == Lit("\\n\\n", 2) \o Lit("text", n - 2)

Phrase == Lit("informacoes suficientes", 23)

DecideAnalyses ==
    { Filler(2),
      Filler(2) \o Phrase,
      Filler(AnalysisThreshold),
      Filler(AnalysisThreshold + 500),
      Filler(AnalysisThreshold - 23) \o Phrase,
      Filler(AnalysisThreshold - 22) \o Phrase,
      Filler(AnalysisThreshold) \o Lit("Informacoes Suficientes", 23),
      Filler(AnalysisThreshold) \o Lit("informacoes suficientes", 22) }

InitDecide ==
    /\ research_tasks =
          ("job1" :> [status |-> "running",
                      start_time |-> 0,
                      query |-> ReportRequest.query,
                      config |-> [provider |-> ReportRequest.llm_provider,
                                  max_iterations |-> ReportRequest.max_iterations],
                      progress |-> ProgressStart,
                      partial_result |-> << >>])
    /\ research_events = ("job1" :> << >>)
    /\ task = ("job1" :> [NewTask(None) EXCEPT !.pc = "should_continue"])
    /\ \E iteration \in 1 .. MaxIterationsInput, max_iterations \in 0 .. MaxIterationsInput,
          analysis \in DecideAnalyses :
          /\ iteration = 1 \/ iteration <= max_iterations
          /\ rstate = ("job1" :>
                        [InitialState(ReportRequest.query, max_iterations)
                            EXCEPT !.analysis = analysis, !.iteration = iteration])
    /\ streams = EmptyDict
    /\ now = 0

NextDecide ==
    \/ \E j \in JobIds : should_continue(j)
    \/ \E j \in JobIds : plan_search(j)
    \/ \E j \in JobIds : generate_report(j)

SpecDecide == InitDecide /\ [][NextDecide]_vars

\* Two subscribers of one job whose request is valid, with no cancel request.
ValidRequests == { r \in StreamRequests : ~Truthy(ValidationError(r)) }

NextTwoStreams ==
    \/ \E j \in JobIds, request \in ValidRequests : research_endpoint(j, request)
    \/ \E j \in JobIds : execute_research_start(j)
    \/ \E j \in JobIds : execute_research_completed(j)
    \/ \E j \in JobIds : execute_research_timeout(j)
    \/ \E j \in JobIds : plan_search(j)
    \/ \E j \in JobIds : execute_search(j, AdapterShapes, ReachablePages)
    \/ \E j \in JobIds : summarize_sites(j)
    \/ \E j \in JobIds : summarize_llm_return(j, SummaryTexts)
    \/ \E j \in JobIds : analyze_results(j)
    \/ \E j \in JobIds : analyze_llm_return(j, AnalysisTexts)
    \/ \E j \in JobIds : should_continue(j)
    \/ \E j \in JobIds : generate_report(j)
    \/ \E j \in JobIds : report_llm_return(j, ReportTexts)
    \/ \E j \in JobIds : research_returns(j)
    \/ \E s \in StreamIds, j \in JobIds : research_stream(s, j)
    \/ \E s \in StreamIds : event_stream_poll(s)
    \/ \E s \in StreamIds : event_stream_relay(s)
    \/ \E s \in StreamIds : event_stream_timeout(s)
    \/ \E s \in StreamIds : event_stream_expired(s)

SpecTwoStreams == Init /\ [][NextTwoStreams]_vars

---------------------------------------------------------------------------
(* Properties *)

TerminalStatuses == {"completed", "timeout", "failed", "cancelled"}
TerminalTypes == {"complete", "error", "cancelled", "timeout"}

StatusOf(j) == research_tasks[j].status
ProgressOf(j) == Get(research_tasks[j], "progress", 0)
PartialOf(j) == Get(research_tasks[j], "partial_result", << >>)
\* task_info.get("result", "")
ResultOf(j) == Get(research_tasks[j], "result", << >>)
LogOf(j) == EventsOf(research_events, j)

HasType(log, type) == \E i \in 1 .. Len(log) : log[i].type = type

\* C1: once a job's status is completed, timeout, failed or cancelled, no
\* step changes its status or its stored result.
C1_StatusMonotonic ==
    [][\A j \in DOMAIN research_tasks :
          StatusOf(j) \in TerminalStatuses =>
             /\ j \in DOMAIN research_tasks'
             /\ research_tasks'[j].status = StatusOf(j)
             /\ ("result" \in DOMAIN research_tasks'[j]) = ("result" \in DOMAIN research_tasks[j])
             /\ Get(research_tasks'[j], "result", << >>) = ResultOf(j)]_vars

\* C2: a job's log holds a terminal event (complete, error, cancelled,
\* timeout) only as its last event, and the log of a job whose
\* execute_research has ended holds exactly one.
C2_OneTerminalEventLast ==
    \A j \in DOMAIN task :
        LET log == LogOf(j)
        IN  /\ \A i \in 1 .. Len(log) - 1 : log[i].type \notin TerminalTypes
            /\ task[j].pc = "done" =>
                  Cardinality({ i \in 1 .. Len(log) : log[i].type \in TerminalTypes }) = 1

\* A cancel request was accepted after the first plan event and before the
\* search stage completed.
CancelledWhileSearching(log) ==
    \E i \in 1 .. Len(log) :
        /\ log[i].type = "cancelled"
        /\ \E p \in 1 .. i - 1 : log[p].type = "plan"
        /\ \A q \in 1 .. i - 1 : log[q].type # "search_complete"

\* C3: after a cancel accepted between the first plan event and the end of
\* the search stage, no report event is appended and the job, unless its
\* deadline expires, ends cancelled.
C3_CancelStopsPipeline ==
    \A j \in DOMAIN task :
        CancelledWhileSearching(LogOf(j)) =>
            /\ ~HasType(LogOf(j), "report")
            /\ (task[j].pc = "done" /\ ~HasType(LogOf(j), "error")) => StatusOf(j) = "cancelled"

\* research() caught an exception of the graph: the error event it logs
\* carries the exception under details.
PipelineRaised(log) ==
    \E i \in 1 .. Len(log) :
        /\ log[i].type = "error"
        /\ "details" \in DOMAIN log[i].data
        /\ "error" \in DOMAIN log[i].data.details

\* C4: a job whose Text Generator call failed inside PLAN, ANALYZE or REPORT
\* ends failed, never completed, with its partial result kept in its result.
C4_LLMFailureFailsJob ==
    \A j \in DOMAIN task :
        (PipelineRaised(LogOf(j)) /\ task[j].pc = "done") =>
            /\ StatusOf(j) = "failed"
            /\ Truthy(PartialOf(j)) =>
                  \E k \in 0 .. Len(ResultOf(j)) :
                      IsPrefix(PartialOf(j), SubSeq(ResultOf(j), k + 1, Len(ResultOf(j))))

\* C5: iteration <= max_iterations in every state of every pipeline.
C5_IterationBounded ==
    \A j \in DOMAIN rstate : rstate[j].iteration <= rstate[j].max_iterations

\* The deadline of job j expired: the log ends with the timeout's error event.
DeadlineExpired(j) ==
    /\ LogOf(j) # << >>
    /\ LogOf(j)[Len(LogOf(j))].type = "error"
    /\ LogOf(j)[Len(LogOf(j))].data.message = "Timeout na execucao da pesquisa"

\* C6: after the deadline expired the status is timeout and the result is
\* non-empty: the partial result when there is one, the placeholder otherwise.
C6_TimeoutResult ==
    \A j \in DOMAIN task :
        DeadlineExpired(j) =>
            /\ StatusOf(j) = "timeout"
            /\ "result" \in DOMAIN research_tasks[j]
            /\ Truthy(ResultOf(j))
            /\ ResultOf(j) = (IF Truthy(PartialOf(j)) THEN PartialOf(j) ELSE TimeoutPlaceholder)

\* A deadline expired on a job that had accumulated a partial result.
C6_Witness ==
    \E j \in DOMAIN task :
        DeadlineExpired(j) /\ Truthy(PartialOf(j)) /\ StatusOf(j) = "timeout"

\* C7: a job whose status is timeout or failed has a non-empty result.
C7_ResultOnFailure ==
    \A j \in DOMAIN research_tasks :
        StatusOf(j) \in {"timeout", "failed"} => Truthy(ResultOf(j))

\* C8: a submission that fails validation leaves no registry record and no
\* event log.
C8_RejectedBeforeCreation ==
    \A j \in DOMAIN task :
        (task[j].pc = "created" /\ Truthy(ValidationError(task[j].request))) =>
            j \notin DOMAIN research_tasks /\ j \notin DOMAIN research_events

\* C9: progress never decreases, and is at most 90 while the status is not
\* completed.
C9_ProgressMonotoneCapped ==
    /\ [](\A j \in DOMAIN research_tasks :
             StatusOf(j) # "completed" => ProgressOf(j) <= ProgressCap)
    /\ [][\A j \in DOMAIN research_tasks \cap DOMAIN research_tasks' :
             Get(research_tasks'[j], "progress", 0) >= ProgressOf(j)]_vars

\* A fourth iteration is being planned with the progress held at the cap.
C9_Witness ==
    \E j \in DOMAIN task :
        /\ task[j].pc = "plan_llm"
        /\ StatusOf(j) = "running"
        /\ ProgressOf(j) = ProgressCap

\* C10: once the status is failed, timeout or cancelled, no step changes the
\* progress.
C10_ProgressFrozen ==
    [][\A j \in DOMAIN research_tasks \cap DOMAIN research_tasks' :
          StatusOf(j) \in {"failed", "timeout", "cancelled"} =>
              Get(research_tasks'[j], "progress", 0) = ProgressOf(j)]_vars

\* The messages a stream makes itself: every other message of out relays an
\* event of the log.
OwnMessage(m) ==
    \/ m.event \in {"connected", "timeout", "disconnected"}
    \/ m.event = "complete"
       /\ m.data.message = "Pesquisa concluida parcialmente devido a timeout"
    \/ m.event = "error" /\ m.data.message = "Pesquisa nao encontrada"

RelayedMessage(m) == ~OwnMessage(m)

\* The log events relayed to subscriber s, in the order it received them.
RelayedTo(s) == SelectSeq(streams[s].out, RelayedMessage)

\* C11: a step changes a job's log only by appending to it, and what each
\* subscriber has been relayed is, event for event, the beginning of the log
\* of its job.
C11_RelayedIsPrefix ==
    /\ [](\A s \in DOMAIN streams :
             LET log == LogOf(streams[s].research_id)
                 relayed == RelayedTo(s)
             IN  /\ Len(relayed) <= Len(log)
                 /\ \A i \in 1 .. Len(relayed) :
                        relayed[i] = create_sse_message(log[i].type, log[i].data))
    /\ [][\A j \in DOMAIN research_events :
             /\ j \in DOMAIN research_events'
             /\ IsPrefix(research_events[j], research_events'[j])]_vars

\* Two subscribers of one job stand at different cursors, both behind the
\* end of the log.
C11_Witness ==
    \E s1 \in DOMAIN streams, s2 \in DOMAIN streams :
        /\ streams[s1].research_id = streams[s2].research_id
        /\ Len(RelayedTo(s1)) >= 2
        /\ Len(RelayedTo(s2)) > Len(RelayedTo(s1))
        /\ Len(LogOf(streams[s2].research_id)) > Len(RelayedTo(s2))

\* C12: a subscriber is relayed nothing after an event of type complete,
\* error or cancelled, and once it has gone on from relaying such an event
\* its stream is closed, disconnected being the last message.
C12_ClosesAtTerminalEvent ==
    \A s \in DOMAIN streams :
        LET relayed == RelayedTo(s)
            out == streams[s].out
        IN  /\ \A i \in 1 .. Len(relayed) - 1 : relayed[i].event \notin StreamEndTypes
            /\ (/\ relayed # << >>
                /\ relayed[Len(relayed)].event \in StreamEndTypes
                /\ streams[s].pc \notin {"relay", "gone"})
               => (streams[s].pc = "closed" /\ out[Len(out)] = Disconnected)

\* C13: the step that ends a stream whose lifetime was exceeded yields a
\* complete message carrying the job's partial result when that result is
\* not empty, yields no complete message when the job has no partial result,
\* and yields disconnected last.
C13_LifetimeCompletion ==
    [][\A s \in DOMAIN streams :
          (streams[s].pc = "timed_out" /\ streams'[s].pc = "closed") =>
              LET j == streams[s].research_id
                  partial == IF j \in DOMAIN research_tasks THEN PartialOf(j) ELSE << >>
                  yielded == SubSeq(streams'[s].out, Len(streams[s].out) + 1,
                                    Len(streams'[s].out))
              IN  yielded =
                      (IF Truthy(partial)
                       THEN <<create_sse_message("complete",
                                [message |-> "Pesquisa concluida parcialmente devido a timeout",
                                 result |-> partial])>>
                       ELSE << >>)
                      \o <<Disconnected>>]_vars

\* The urls of the lines "- title (url)" of a sources text, in order: text
\* is what is left to read, url the slices read since the last " (".
RECURSIVE ListedUrls(_, _, _)
ListedUrls(text, url, inside) ==
    IF text = << >> THEN << >>
    ELSE LET c == Head(text)
         IN  IF ~inside
             THEN ListedUrls(Tail(text), << >>, c.b = " (")
             ELSE IF c.b = ")\\n"
             THEN <<url>> \o ListedUrls(Tail(text), << >>, FALSE)
             ELSE ListedUrls(Tail(text), Append(url, c), TRUE)

NoDuplicates(seq) ==
    \A a \in 1 .. Len(seq), b \in 1 .. Len(seq) : a # b => seq[a] # seq[b]

AfterReport == {"report_llm", "graph_end", "returned", "done"}

\* C14: the sources text REPORT builds lists no url twice, whatever the site
\* summaries are.
C14_SourcesUnique ==
    \A j \in DOMAIN rstate :
        task[j].pc \in AfterReport => NoDuplicates(ListedUrls(rstate[j].sources, << >>, FALSE))

\* REPORT has run on summaries that hold one url under two source types, and
\* lists it once.
C14_Witness ==
    \E j \in DOMAIN rstate :
        /\ task[j].pc \in AfterReport
        /\ Len(ListedUrls(rstate[j].sources, << >>, FALSE)) = 1
        /\ \E a \in 1 .. Len(rstate[j].site_summaries),
              b \in 1 .. Len(rstate[j].site_summaries) :
              LET x == rstate[j].site_summaries[a]
                  y == rstate[j].site_summaries[b]
              IN  /\ x.url = y.url /\ Truthy(x.url)
                  /\ Truthy(x.title) /\ Truthy(y.title)
                  /\ x.source_type # y.source_type

\* C15: a step leaves a pipeline's analysis as it is or extends it at its
\* end, and only the step that ends ANALYZE changes it.
C15_AnalysisAppendOnly ==
    [][\A j \in DOMAIN rstate \cap DOMAIN rstate' :
          /\ IsPrefix(rstate[j].analysis, rstate'[j].analysis)
          /\ rstate'[j].analysis # rstate[j].analysis =>
                (task[j].pc = "analyze_llm" /\ task'[j].pc = "should_continue")]_vars

\* ANALYZE has ended a second time, on a text other than the first one's.
C15_Witness ==
    \E j \in DOMAIN rstate :
        /\ rstate[j].iteration = 2
        /\ Len(rstate[j].analysis) = 4
        /\ rstate[j].analysis[2] # rstate[j].analysis[4]

\* The positions in log of the events of a type, and of those among them
\* whose details hold a key.
EventsOfType(log, type) == { i \in 1 .. Len(log) : log[i].type = type }

EventsWithDetail(log, type, key) ==
    { i \in EventsOfType(log, type) :
        "details" \in DOMAIN log[i].data /\ key \in DOMAIN log[i].data.details }

\* The job of scenario A has ended and every collaborator call succeeded: no
\* error event was logged.
ScenarioAEnded(j) == task[j].pc = "done" /\ ~HasType(LogOf(j), "error")

\* C16 as stated: the ended job's log holds one plan event, one search event
\* (count 2), one analyze_complete event (iteration 1), one decision event
\* (finish) and one report_complete event, and the status is completed.
C16_ScenarioAOneEventEach ==
    \A j \in DOMAIN task :
        ScenarioAEnded(j) =>
            LET log == LogOf(j)
            IN  /\ Cardinality(EventsOfType(log, "plan")) = 1
                /\ Cardinality(EventsOfType(log, "search")) = 1
                /\ \A i \in EventsWithDetail(log, "search", "count") :
                       log[i].data.details.count = 2
                /\ Cardinality(EventsOfType(log, "analyze_complete")) = 1
                /\ \A i \in EventsOfType(log, "analyze_complete") :
                       log[i].data.details.iteration = 1
                /\ Cardinality(EventsOfType(log, "decision")) = 1
                /\ \A i \in EventsOfType(log, "decision") :
                       log[i].data.message = "Numero maximo de iteracoes atingido"
                /\ Cardinality(EventsOfType(log, "report_complete")) = 1
                /\ StatusOf(j) = "completed"

\* C16 amended: PLAN and SEARCH each log two events of their type, one that
\* announces the stage and one that carries its outcome: of the two plan
\* events one carries the planned query, of the two search events one
\* carries the count, which is 2; the rest is as stated.
C16_ScenarioAEvents ==
    \A j \in DOMAIN task :
        ScenarioAEnded(j) =>
            LET log == LogOf(j)
            IN  /\ Cardinality(EventsOfType(log, "plan")) = 2
                /\ Cardinality(EventsWithDetail(log, "plan", "query")) = 1
                /\ Cardinality(EventsOfType(log, "search")) = 2
                /\ Cardinality(EventsWithDetail(log, "search", "count")) = 1
                /\ \A i \in EventsWithDetail(log, "search", "count") :
                       log[i].data.details.count = 2
                /\ Cardinality(EventsOfType(log, "analyze_complete")) = 1
                /\ \A i \in EventsOfType(log, "analyze_complete") :
                       log[i].data.details.iteration = 1
                /\ Cardinality(EventsOfType(log, "decision")) = 1
                /\ \A i \in EventsOfType(log, "decision") :
                       log[i].data.message = "Numero maximo de iteracoes atingido"
                /\ Cardinality(EventsOfType(log, "report_complete")) = 1
                /\ StatusOf(j) = "completed"

\* A job of scenario A has ended with a report, both pages fetched.
C16_Witness ==
    \E j \in DOMAIN task :
        /\ ScenarioAEnded(j)
        /\ HasType(LogOf(j), "report_complete")
        /\ Len(rstate[j].site_summaries) = 2

\* The count carried by the last search event of log that carries one, -1
\* if there is none.
LastSearchCount(log) ==
    LET counted == EventsWithDetail(log, "search", "count")
    IN  IF counted = {} THEN -1
        ELSE log[CHOOSE i \in counted : \A k \in counted : k <= i].data.details.count

\* SEARCH has just returned for job j and found no valid result.
ZeroValidResults(j) ==
    /\ j \in DOMAIN task
    /\ task[j].pc = "summarize_sites"
    /\ LastSearchCount(LogOf(j)) = 0

\* The SEARCH step of job j raises nothing, and appends nothing when it
\* finds no valid result.
SearchAppendsNothing(j) ==
    (j \in DOMAIN task /\ task[j].pc = "execute_search" /\ task'[j].pc # "execute_search") =>
        /\ task'[j].pc = "summarize_sites"
        /\ ZeroValidResults(j)' => rstate'[j].search_results = rstate[j].search_results

\* The step of job j that ends ANALYZE and enters DECIDE adds one to iteration.
IterationIncremented(j) ==
    (j \in DOMAIN task /\ task[j].pc = "analyze_llm" /\ task'[j].pc = "should_continue") =>
        rstate'[j].iteration = rstate[j].iteration + 1

\* ZeroValidResults(j) in iteration n + 1 of the job.
ZeroValidAt(j, n) ==
    IF ZeroValidResults(j) THEN rstate[j].iteration = n ELSE FALSE

\* Job j is in DECIDE with n iterations done.
AtDecide(j, n) ==
    IF j \in DOMAIN task /\ j \in DOMAIN rstate
    THEN task[j].pc = "should_continue" /\ rstate[j].iteration = n
    ELSE FALSE

\* research() of job j caught an exception of the graph.
AnalysisCallRaised(j) ==
    IF j \in DOMAIN research_events THEN PipelineRaised(LogOf(j)) ELSE FALSE

\* C17: when the adapter fails or returns no valid entry, SEARCH appends
\* nothing and raises nothing, and the pipeline goes on through SUMMARIZE and
\* ANALYZE to DECIDE with the iteration counter incremented, unless the Text
\* Generator call of ANALYZE itself fails.
C17_ZeroResultsReachDecide ==
    /\ [][\A j \in JobIds : SearchAppendsNothing(j) /\ IterationIncremented(j)]_vars
    /\ \A j \in JobIds : \A n \in 0 .. MaxIterationsInput :
          ZeroValidAt(j, n) ~> (AtDecide(j, n + 1) \/ AnalysisCallRaised(j))

\* A job is in DECIDE after an iteration whose search found no valid result
\* and nothing was ever extracted.
C17_Witness ==
    \E j \in DOMAIN task :
        /\ task[j].pc = "should_continue"
        /\ LastSearchCount(LogOf(j)) = 0
        /\ rstate[j].search_results = << >>
        /\ rstate[j].iteration = 1
        /\ HasType(LogOf(j), "analyze_complete")

\* The ids a client may ask about: the jobs' and one that was never issued.
AskedIds == JobIds \cup {"unknown"}

\* C18: the snapshot of a terminal job holds its status and a result, the
\* snapshot of a job in progress holds its status, its progress and its
\* partial result, and an unknown id is answered 404.
C18_SnapshotResponse ==
    \A id \in AskedIds :
        LET r == get_research_result(research_tasks, id)
        IN  IF id \notin DOMAIN research_tasks
            THEN "status_code" \in DOMAIN r /\ r.status_code = 404
            ELSE /\ StatusOf(id) \in TerminalStatuses =>
                      /\ {"status", "result"} \subseteq DOMAIN r
                      /\ r.status = StatusOf(id)
                 /\ StatusOf(id) \in {"started", "running"} =>
                      /\ {"status", "progress", "result"} \subseteq DOMAIN r
                      /\ r.status = StatusOf(id)
                      /\ r.progress = ProgressOf(id)
                      /\ r.result = PartialOf(id)

\* C19: a cancel request on a terminal job leaves the registry and the log
\* as they are and answers with the message that the job cannot be cancelled.
C19_CancelTerminalNoOp ==
    \A j \in DOMAIN research_tasks :
        StatusOf(j) \in TerminalStatuses =>
            LET o == CancelOutcome(World, j)
            IN  /\ o.w = World
                /\ "message" \in DOMAIN o.response
                /\ o.response.message[1] = "Pesquisa nao pode ser cancelada. Status atual"

\* A job that ended completed with its result and its log, on which a cancel
\* request can be made and is refused.
C19_Witness ==
    \E j \in DOMAIN research_tasks :
        /\ StatusOf(j) = "completed"
        /\ task[j].pc = "done"
        /\ Truthy(ResultOf(j))
        /\ ENABLED cancel_research(j)
        /\ CancelOutcome(World, j).response.message[2] = "completed"

\* The tag set as listed for the Event type.
ListedTypes ==
    {"plan", "search", "search_complete", "extract", "extract_detail", "site_summary",
     "analyze", "analyze_complete", "decision", "report", "report_complete",
     "complete", "error", "timeout", "cancelled", "connected", "disconnected"}

\* The types the handlers and the orchestrator append to a log.
LoggedTypes ==
    {"init", "start", "pipeline_start", "plan", "search", "extract", "extract_detail",
     "search_complete", "site_summary", "site_summary_complete",
     "site_summaries_complete", "analyze", "analyze_complete", "decision", "report",
     "report_complete", "complete", "warning", "error", "cancelled"}

\* C20 as stated: every event of every log has a type of the listed set.
C20_TypesListed ==
    \A j \in DOMAIN research_events :
        \A i \in 1 .. Len(LogOf(j)) : LogOf(j)[i].type \in ListedTypes

\* C20 amended: every event of every log has a type of the set the code
\* logs, which adds init, start, pipeline_start, site_summary_complete,
\* site_summaries_complete and warning to the listed set and leaves out
\* timeout, connected and disconnected, which only a stream sends.
C20_TypesLogged ==
    \A j \in DOMAIN research_events :
        \A i \in 1 .. Len(LogOf(j)) : LogOf(j)[i].type \in LoggedTypes

\* A job ended at its deadline after a summary was logged: its log holds
\* types outside the listed set, and the deadline's event.
C20_Witness ==
    \E j \in DOMAIN task :
        /\ task[j].pc = "done"
        /\ StatusOf(j) = "timeout"
        /\ HasType(LogOf(j), "init")
        /\ HasType(LogOf(j), "pipeline_start")
        /\ HasType(LogOf(j), "site_summary_complete")
        /\ HasType(LogOf(j), "site_summaries_complete")

\* What the process holds for job j: its registry record, its log, its
\* task and its ResearchState, each as a sequence that is empty when absent.
Entry(d, j) == IF j \in DOMAIN d THEN <<d[j]>> ELSE << >>

JobView ==
    [j \in TwoJobs |-> <<Entry(research_tasks, j), Entry(research_events, j),
                         Entry(task, j), Entry(rstate, j)>>]

\* Every event of log that carries a query carries this one.
QueriesAre(log, query) ==
    \A i \in 1 .. Len(log) :
        ("details" \in DOMAIN log[i].data /\ "query" \in DOMAIN log[i].data.details) =>
            log[i].data.details.query = query

\* C21: with two jobs under every interleaving, the events a job's
\* orchestrator emits are in that job's log only (every event that names a
\* query names the query of the job whose log it is in), a job's
\* ResearchState is the one of its own request, and every step changes the
\* registry record, the log, the task and the ResearchState of one job at most.
C21_JobsIsolated ==
    /\ [](\A j \in DOMAIN research_tasks :
            /\ QueriesAre(LogOf(j), research_tasks[j].query)
            /\ j \in DOMAIN rstate => rstate[j].query = research_tasks[j].query)
    /\ [][Cardinality({ j \in TwoJobs : JobView[j] # JobView'[j] }) <= 1]_vars

\* Two jobs with different queries are both past their first analysis, each
\* with its own number of log events.
C21_Witness ==
    /\ TwoJobs \subseteq DOMAIN rstate
    /\ research_tasks["job1"].query # research_tasks["job2"].query
    /\ \A j \in TwoJobs :
          /\ task[j].pc = "should_continue"
          /\ HasType(LogOf(j), "analyze_complete")
    /\ Len(LogOf("job1")) # Len(LogOf("job2"))

\* The hours since job j was submitted.
AgeOf(j) == now - research_tasks[j].start_time

\* C22: a cleanup removes the registry record and the log of every job
\* submitted 24 hours ago or earlier, and leaves the record and the log of
\* every younger job, and the set of the other logs, as they were.
C22_CleanupExact ==
    [][cleanup_old_research =>
          /\ \A j \in DOMAIN research_tasks :
                IF AgeOf(j) >= HoursPerDay
                THEN j \notin DOMAIN research_tasks' /\ j \notin DOMAIN research_events'
                ELSE /\ j \in DOMAIN research_tasks'
                     /\ research_tasks'[j] = research_tasks[j]
                     /\ Entry(research_events', j) = Entry(research_events, j)
          /\ DOMAIN research_tasks' \subseteq DOMAIN research_tasks
          /\ DOMAIN research_events' \subseteq DOMAIN research_events]_vars

\* A cleanup has removed job1, and job2, submitted 12 hours ago, has its
\* record and its log.
C22_Witness ==
    /\ "job1" \in DOMAIN task
    /\ "job1" \notin DOMAIN research_tasks
    /\ "job1" \notin DOMAIN research_events
    /\ "job2" \in DOMAIN research_tasks
    /\ "job2" \in DOMAIN research_events
    /\ AgeOf("job2") = HoursPerTick
    /\ task["job2"].pc = "done"

Max(a, b) == IF a >= b THEN a ELSE b

\* The pipeline of job j has started.
PipelineStarted(j) == j \in DOMAIN rstate

\* Job j went through REPORT and is done.
ReportedAndDone(j) ==
    IF j \in DOMAIN task /\ j \in DOMAIN research_tasks
    THEN /\ task[j].pc = "done"
         /\ HasType(LogOf(j), "report_complete")
         /\ StatusOf(j) = "completed"
    ELSE FALSE

\* The iterations job j has begun: the plan events that carry a query.
IterationsBegun(j) == Cardinality(EventsWithDetail(LogOf(j), "plan", "query"))

\* No pipeline has counted or begun more than max(1, max_iterations) iterations.
IterationsBounded ==
    \A j \in DOMAIN rstate :
        /\ rstate[j].iteration <= Max(1, rstate[j].max_iterations)
        /\ IterationsBegun(j) <= Max(1, rstate[j].max_iterations)

StageOf(pc) ==
    CASE pc \in {"plan_search", "plan_llm"} -> "PLAN"
      [] pc = "execute_search" -> "SEARCH"
      [] pc \in {"summarize_sites", "summarize_llm"} -> "SUMMARIZE"
      [] pc \in {"analyze_results", "analyze_llm"} -> "ANALYZE"
      [] pc = "should_continue" -> "DECIDE"
      [] pc \in {"generate_report", "report_llm"} -> "REPORT"
      [] pc = "created" -> "CREATED"
      [] OTHER -> "END"

StageOrder ==
    { <<"CREATED", "PLAN">>, <<"PLAN", "SEARCH">>, <<"SEARCH", "SUMMARIZE">>,
      <<"SUMMARIZE", "ANALYZE">>, <<"ANALYZE", "DECIDE">>, <<"DECIDE", "PLAN">>,
      <<"DECIDE", "REPORT">> }

\* The message of the decision event that ends log.
LastDecision(log) ==
    IF log # << >> /\ log[Len(log)].type = "decision"
    THEN log[Len(log)].data.message ELSE "none"

\* The step of job j keeps its stage, passes to the next one in order or
\* ends the pipeline; it enters PLAN from DECIDE only on continue and
\* REPORT only on finish.
StageStep(j) ==
    LET from == StageOf(task[j].pc)
        to == StageOf(task'[j].pc)
    IN  /\ from = to \/ to = "END" \/ <<from, to>> \in StageOrder
        /\ (from = "DECIDE" /\ to = "PLAN") =>
               LastDecision(LogOf(j)') = "Continuando pesquisa"
        /\ (from = "DECIDE" /\ to = "REPORT") =>
               LastDecision(LogOf(j)') \in {"Numero maximo de iteracoes atingido",
                                            "Informacoes suficientes coletadas"}

\* The times job j entered REPORT.
ReportRuns(j) ==
    Cardinality({ i \in EventsOfType(LogOf(j), "report") :
                    LogOf(j)[i].data.message = "Gerando relatorio final..." })

\* C24: the stages run in the order PLAN, SEARCH, SUMMARIZE, ANALYZE, DECIDE;
\* PLAN is re-entered only from a DECIDE that returned continue and REPORT
\* is entered only from a DECIDE that returned finish; REPORT runs once at
\* most and no stage runs after it.
C24_StageOrder ==
    [][\A j \in DOMAIN task : StageStep(j) /\ ReportRuns(j)' <= 1]_vars

\* A job went twice through PLAN .. DECIDE, the first DECIDE having
\* returned continue, and then through REPORT.
C24_Witness ==
    \E j \in DOMAIN rstate :
        /\ task[j].pc = "done"
        /\ HasType(LogOf(j), "report_complete")
        /\ rstate[j].iteration = 2
        /\ \E i \in EventsOfType(LogOf(j), "decision") :
              LogOf(j)[i].data.message = "Continuando pesquisa"
        /\ ReportRuns(j) = 1

\* The condition under which DECIDE is to finish.
FinishCondition(st) ==
    \/ st.iteration >= st.max_iterations
    \/ StrLen(st.analysis) > 2000 /\ ContainsSufficiency(st.analysis)

\* C25: DECIDE returns finish, and the pipeline enters REPORT, if and only
\* if iteration >= max_iterations or the analysis is longer than 2000
\* characters and holds the sufficiency phrase in any case; otherwise it
\* returns continue and the pipeline is back in PLAN.
C25_DecideFinishIff ==
    [][\A j \in DOMAIN task :
          task[j].pc = "should_continue" =>
              IF FinishCondition(rstate[j])
              THEN /\ task'[j].pc = "generate_report"
                   /\ LastDecision(LogOf(j)') # "Continuando pesquisa"
              ELSE /\ task'[j].pc = "plan_search"
                   /\ LastDecision(LogOf(j)') = "Continuando pesquisa"]_vars

\* DECIDE has finished before max_iterations on an analysis of 2001
\* characters that ends with the phrase.
C25_Witness ==
    \E j \in DOMAIN rstate :
        /\ task[j].pc = "generate_report"
        /\ rstate[j].iteration < rstate[j].max_iterations
        /\ StrLen(rstate[j].analysis) = 2001
        /\ LastDecision(LogOf(j)) = "Informacoes suficientes coletadas"

\* q is t without the blanks at its two ends.
TrimmedFrom(q, t) ==
    \E a \in 1 .. Len(t) + 1, b \in 0 .. Len(t) :
        /\ q = SubSeq(t, a, b)
        /\ \A k \in 1 .. a - 1 : IsSpace(t[k])
        /\ \A k \in b + 1 .. Len(t) : IsSpace(t[k])
        /\ q # << >> => ~IsSpace(q[1]) /\ ~IsSpace(q[Len(q)])

\* The modes PLAN is to select at iterations 0, 1 and 2.
FirstModes == <<"google", "arxiv", "wikipedia">>

\* A step of job j out of PLAN, or into its Text Generator call.
PlanStep(j) ==
    LET st == rstate[j]
        leaves == task[j].pc = "plan_search" /\ task'[j].pc \in {"execute_search", "plan_llm"}
        answered == task[j].pc = "plan_llm" /\ task'[j].pc = "execute_search"
    IN  /\ (leaves /\ st.iteration \in {0, 1, 2}) =>
               /\ task'[j].pc = "execute_search"
               /\ rstate'[j].search_mode = FirstModes[st.iteration + 1]
               /\ rstate'[j].current_search_query = st.query
        /\ (leaves /\ st.iteration >= 3) =>
               /\ task'[j].pc = "plan_llm"
               /\ rstate'[j] = st
        /\ answered =>
               /\ st.iteration >= 3
               /\ \E t \in PlanTexts : TrimmedFrom(rstate'[j].current_search_query, t)

\* C26: PLAN at iteration 0, 1 and 2 selects google, arxiv and wikipedia
\* and takes the original query as the current query, without a Text
\* Generator call; from iteration 3 on it calls the Text Generator and the
\* current query is the trimmed output; no step changes the query field
\* of a job's state, which starts as the request's query.
C26_PlanQueryAndMode ==
    [][\A j \in DOMAIN task :
          /\ j \in DOMAIN rstate => PlanStep(j) /\ rstate'[j].query = rstate[j].query
          /\ (j \notin DOMAIN rstate /\ j \in DOMAIN rstate') =>
                 rstate'[j].query = task[j].request.query]_vars

\* A job planned iterations 0 .. 3: the three fixed modes with the original
\* query, then the trimmed Text Generator output.
C26_Witness ==
    \E j \in DOMAIN rstate :
        /\ Len(rstate[j].search_queries) = 4
        /\ rstate[j].iteration = 3
        /\ rstate[j].current_search_query = Lit("refined query", 13)
        /\ rstate[j].query = Lit("q", 1)

\* The modes PLAN selected for job j, iteration k - 1 at position k.
PlannedModes(j) ==
    LET Planned(e) == e.type = "plan" /\ e.data.message = "Query planejada"
        planned == SelectSeq(LogOf(j), Planned)
    IN  [k \in 1 .. Len(planned) |-> planned[k].data.details.mode]

\* The times mode occurs in modes[from .. from + 3].
UsesIn(modes, from, mode) == Cardinality({ k \in from .. from + 3 : modes[k] = mode })

ModeNames == {"google", "arxiv", "wikipedia"}

\* C27: from iteration 3 on the mode is slot (iteration mod 4) of one
\* 4-slot schedule, and over any 4 consecutive iterations >= 3 google is
\* selected twice, arxiv once and wikipedia once.
C27_ScheduleShares ==
    \A j \in DOMAIN research_events :
        LET modes == PlannedModes(j)
        IN  /\ \E schedule \in [0 .. 3 -> ModeNames] :
                  \A k \in 4 .. Len(modes) : modes[k] = schedule[(k - 1) % 4]
            /\ \A k \in 4 .. Len(modes) - 3 :
                  /\ UsesIn(modes, k, "google") = 2
                  /\ UsesIn(modes, k, "arxiv") = 1
                  /\ UsesIn(modes, k, "wikipedia") = 1

\* A job planned iterations 0 .. 9: the schedule was gone through from
\* each of its four slots.
C27_Witness ==
    \E j \in DOMAIN research_events : Len(PlannedModes(j)) = MaxLongRun

\* The entries a step of job j appended to its search results.
Appended(j) ==
    SubSeq(rstate'[j].search_results, Len(rstate[j].search_results) + 1,
           Len(rstate'[j].search_results))

\* result was made from entry k of what the adapter of a mode found.
FromAdapterEntry(result, search_mode, k) ==
    /\ result.url = AdapterEntry(search_mode, k).url
    /\ result.snippet = AdapterEntry(search_mode, k).snippet
    /\ result.source_type = search_mode

SearchCap == 5

\* A SEARCH step of job j: what it appended are entries the adapter found,
\* one fetch each, and no more than SearchCap of them.
SearchStep(j) ==
    (task[j].pc = "execute_search" /\ task'[j].pc = "summarize_sites") =>
        /\ Len(Appended(j)) <= SearchCap
        /\ \A i \in 1 .. Len(Appended(j)) :
              \E k \in 1 .. SearchCap :
                  FromAdapterEntry(Appended(j)[i], rstate[j].search_mode, k)
        /\ Cardinality(EventsOfType(LogOf(j)', "extract"))
               = Cardinality(EventsOfType(LogOf(j), "extract")) + Len(Appended(j))

Summarizable(result) ==
    /\ "error" \in DOMAIN result /\ result.error = FALSE
    /\ "content" \in DOMAIN result /\ StrLen(result.content) > 0

\* The result the pending summarization call of job j is about.
HandedResult(j) == LastN(rstate[j].search_results, RecentWindow)[task[j].i]

\* The summaries a step of job j appended.
NewSummaries(j) ==
    SubSeq(rstate'[j].site_summaries, Len(rstate[j].site_summaries) + 1,
           Len(rstate'[j].site_summaries))

\* C29: the result handed to the Text Generator for summarization has its
\* error flag false and a non-empty content, and every SiteSummary appended
\* is the summary of the result that was handed.
C29_OnlyFetchedSummarized ==
    [][\A j \in DOMAIN task :
          /\ task'[j].pc = "summarize_llm" => Summarizable(HandedResult(j)')
          /\ j \in DOMAIN rstate =>
                 \A k \in 1 .. Len(NewSummaries(j)) :
                     /\ task[j].pc = "summarize_llm"
                     /\ Summarizable(HandedResult(j))
                     /\ NewSummaries(j)[k].url = HandedResult(j).url
                     /\ NewSummaries(j)[k].title = HandedResult(j).title]_vars

\* SUMMARIZE ended with a summary of a fetched page while the results hold
\* a page with no text and a page whose fetch failed.
C29_Witness ==
    \E j \in DOMAIN rstate :
        /\ task[j].pc = "analyze_results"
        /\ Len(rstate[j].site_summaries) > 0
        /\ \E a, b \in 1 .. Len(rstate[j].search_results) :
              /\ rstate[j].search_results[a].error = TRUE
              /\ rstate[j].search_results[b].error = FALSE
              /\ rstate[j].search_results[b].content = << >>

\* The positions of search_results that hold a fetched page with text.
FetchedPositions(st) ==
    { p \in 1 .. Len(st.search_results) : Summarizable(st.search_results[p]) }

\* The position in search_results of the result handed to the pending
\* summarization call of job j.
HandedPosition(j) ==
    Len(rstate[j].search_results)
        - Len(LastN(rstate[j].search_results, RecentWindow)) + task[j].i

\* C30: whatever number of results each search returned, site_summaries
\* holds no more than one SiteSummary per fetched SearchResult, and the
\* result handed to the Text Generator is one of those the SEARCH of the
\* same iteration appended: no result is summarized in a later iteration
\* again.
C30_OneSummaryPerResult ==
    \A j \in DOMAIN rstate :
        /\ Len(rstate[j].site_summaries) <= Cardinality(FetchedPositions(rstate[j]))
        /\ task[j].pc = "summarize_llm" =>
               HandedPosition(j) > Len(rstate[j].search_results) - LastSearchCount(LogOf(j))

\* The indices after i of the window of job j that hold a fetched page
\* with text.
LeftToSummarize(j, i) ==
    LET window == LastN(rstate[j].search_results, RecentWindow)
    IN  { k \in i + 1 .. Len(window) : Summarizable(window[k]) }

\* The summarization call of job j failed in this step.
SummaryCallFailed(j) ==
    /\ task[j].pc = "summarize_llm"
    /\ task'[j].llm_failures = task[j].llm_failures + 1

\* C31: when the Text Generator fails for one result of SUMMARIZE, an
\* error event is logged, site_summaries is left as it was, the next result
\* of the window that can be summarized is handed to the Text Generator, or
\* the pipeline is in ANALYZE when there is none, and the job's status is
\* still running.
C31_SummaryFailureSkipsOne ==
    [][\A j \in DOMAIN task :
          SummaryCallFailed(j) =>
              /\ Cardinality(EventsOfType(LogOf(j)', "error"))
                     > Cardinality(EventsOfType(LogOf(j), "error"))
              /\ rstate'[j] = rstate[j]
              /\ research_tasks'[j].status = "running"
              /\ IF LeftToSummarize(j, task[j].i) = {}
                 THEN task'[j].pc = "analyze_results"
                 ELSE /\ task'[j].pc = "summarize_llm"
                      /\ task'[j].i \in LeftToSummarize(j, task[j].i)
                      /\ \A k \in LeftToSummarize(j, task[j].i) : task'[j].i <= k]_vars

\* The call for one of five results failed, the other four were
\* summarized and the pipeline is in ANALYZE.
C31_Witness ==
    \E j \in DOMAIN rstate :
        /\ task[j].pc = "analyze_results"
        /\ task[j].llm_failures = 1
        /\ Len(rstate[j].search_results) = 5
        /\ Len(rstate[j].site_summaries) = 4
        /\ HasType(LogOf(j), "error")
        /\ research_tasks[j].status = "running"

\* The statuses of a job that has not ended.
LiveStatuses == {"started", "running"}

\* C32: a stream that ends otherwise than by its lifetime, on a job that
\* has a record, ends when the job's status is no longer started or
\* running: an error event of a Text Generator failure does not end it
\* before the job has ended.
C32_OpenWhileJobLive ==
    [][\A s \in DOMAIN streams :
          (streams[s].pc \in {"connected", "loop", "relay"} /\ streams'[s].pc = "closed") =>
              LET j == streams[s].research_id
              IN  j \in DOMAIN research_tasks' =>
                      research_tasks'[j].status \notin LiveStatuses]_vars

\* C33: a job id has an event log if and only if it has a record.
C33_SameKeys == DOMAIN research_events = DOMAIN research_tasks

\* Cleanup removed a job that a subscriber is still polling, and a
\* subscriber asked for an id that was never issued.
C33_Witness ==
    /\ "job1" \in DOMAIN task
    /\ "job1" \notin DOMAIN research_tasks
    /\ \E s \in DOMAIN streams : streams[s].research_id = "job1" /\ streams[s].pc = "loop"

\* The jobs whose record has one of statuses.
JobsWith(statuses) == { j \in DOMAIN research_tasks : StatusOf(j) \in statuses }

\* C34: the health counts partition the jobs: active counts the started
\* and running jobs, completed the completed ones, failed the failed, timeout
\* and cancelled ones, and the three add up to the number of records.
C34_HealthPartition ==
    LET h == health_check(research_tasks)
    IN  /\ h.active + h.completed + h.failed = h.total
        /\ h.total = Cardinality(DOMAIN research_tasks)
        /\ h.active = Cardinality(JobsWith(LiveStatuses))
        /\ h.completed = Cardinality(JobsWith({"completed"}))
        /\ h.failed = Cardinality(DOMAIN research_tasks)
                          - Cardinality(JobsWith(LiveStatuses \cup {"completed"}))

\* One job was cancelled and the other timed out: both count as failed.
C34_Witness ==
    /\ JobsWith({"cancelled"}) # {}
    /\ JobsWith({"timeout"}) # {}
    /\ health_check(research_tasks).failed = 2

\* C35: the log of a job whose status is completed holds a complete event,
\* and no step of a stream changes the event log: event_stream never
\* appends a complete event of its own.
C35_StreamOnlyReads ==
    /\ [](\A j \in DOMAIN research_tasks :
             StatusOf(j) = "completed" => HasType(LogOf(j), "complete"))
    /\ [][streams' # streams => research_events' = research_events]_vars

\* A subscriber polled a completed job whose pipeline had returned an
\* error string, and was relayed the whole log.
C35_Witness ==
    \E s \in DOMAIN streams :
        LET j == streams[s].research_id
        IN  /\ j \in DOMAIN research_tasks
            /\ StatusOf(j) = "completed"
            /\ streams[s].pc = "closed"
            /\ Len(RelayedTo(s)) = Len(LogOf(j))
            /\ Cardinality(EventsOfType(LogOf(j), "complete")) = 1

\* C36: a job's progress is 100 if and only if its status is completed,
\* and a completed job has a stored result that is not empty.
C36_CompletedHasResult ==
    \A j \in DOMAIN research_tasks :
        /\ research_tasks[j].progress = 100 <=> StatusOf(j) = "completed"
        /\ StatusOf(j) = "completed" =>
               /\ "result" \in DOMAIN research_tasks[j]
               /\ StrLen(research_tasks[j].result) > 0

\* A job completed whose generated report was empty: the stored result is
\* the fallback report.
C36_Witness ==
    \E j \in DOMAIN rstate :
        /\ StatusOf(j) = "completed"
        /\ rstate[j].final_report = << >>
        /\ HasType(LogOf(j), "warning")
        /\ HasType(LogOf(j), "report_complete")
        /\ StrLen(research_tasks[j].result) > 0

\* The iteration numbers carried by the analyze_complete events of job j,
\* in the order they were logged.
AnalyzedIterations(j) ==
    LET Complete(e) == e.type = "analyze_complete"
        complete == SelectSeq(LogOf(j), Complete)
    IN  [k \in 1 .. Len(complete) |-> complete[k].data.details.iteration]

\* A step of job j from PLAN into SEARCH.
PlanEnds(j) ==
    task[j].pc \in {"plan_search", "plan_llm"} /\ task'[j].pc = "execute_search"

\* The entry of search_queries for a mode and a query.
QueryEntry(search_mode, search_query) ==
    ModeName(search_mode) \o Lit(": ", 2) \o search_query

\* C37: a step that ends PLAN appends one entry, made of the mode and the
\* query planned, to search_queries, and no other step changes
\* search_queries; at DECIDE the length of search_queries is iteration; the
\* analyze_complete events carry the iterations 1, 2, 3, ... in order.
C37_QueriesCountIterations ==
    /\ [](\A j \in DOMAIN rstate :
             /\ task[j].pc = "should_continue" =>
                    Len(rstate[j].search_queries) = rstate[j].iteration
             /\ \A k \in 1 .. Len(AnalyzedIterations(j)) : AnalyzedIterations(j)[k] = k)
    /\ [][\A j \in DOMAIN rstate :
             IF PlanEnds(j)
             THEN rstate'[j].search_queries =
                      Append(rstate[j].search_queries,
                             QueryEntry(rstate'[j].search_mode,
                                        rstate'[j].current_search_query))
             ELSE rstate'[j].search_queries = rstate[j].search_queries]_vars

\* DECIDE of the tenth iteration: ten queries planned, ten analyses logged.
C37_Witness ==
    \E j \in DOMAIN rstate :
        /\ task[j].pc = "should_continue"
        /\ Len(rstate[j].search_queries) = MaxLongRun
        /\ Len(AnalyzedIterations(j)) = MaxLongRun

\* The complete events execute_research appended to a log, which carry the
\* result, and the error events of the deadline.
OutcomeEvents(log) ==
    { i \in EventsOfType(log, "complete") : "result" \in DOMAIN log[i].data }

DeadlineEvents(log) ==
    { i \in EventsOfType(log, "error") :
        "error" \in DOMAIN log[i].data /\ log[i].data.error = Lit("timeout", 7) }

\* C38: the log of a job holds one complete event of execute_research or
\* one error event of the deadline, never both and never two of one kind,
\* and from the step in which the deadline fired on, no step changes the
\* job's log or its record.
C38_OneWinner ==
    /\ [](\A j \in DOMAIN research_events :
             Cardinality(OutcomeEvents(LogOf(j))) + Cardinality(DeadlineEvents(LogOf(j))) <= 1)
    /\ [][\A j \in DOMAIN research_events :
             DeadlineEvents(LogOf(j)) # {} =>
                 /\ research_events'[j] = research_events[j]
                 /\ research_tasks'[j] = research_tasks[j]
                 /\ task'[j].pc = "done"]_vars

\* The deadline fired while the pipeline was in REPORT, after a cancel
\* request: the job ended with status timeout and no complete event.
C38_Witness ==
    \E j \in DOMAIN research_tasks :
        /\ StatusOf(j) = "timeout"
        /\ task[j].pc = "done"
        /\ HasType(LogOf(j), "report")
        /\ HasType(LogOf(j), "cancelled")
        /\ DeadlineEvents(LogOf(j)) # {}
        /\ OutcomeEvents(LogOf(j)) = {}

\* The step appended to the log of job j one analyze_complete event whose
\* insights preview is not empty.
PreviewRecorded(j) ==
    /\ Len(LogOf(j)') = Len(LogOf(j)) + 1
    /\ LET event == LogOf(j)'[Len(LogOf(j)')]
       IN  /\ event.type = "analyze_complete"
           /\ StrLen(event.data.details.insights_preview) > 0

\* C39: every step leaves the partial result of a job as it was or
\* extends it, the old value being the beginning of the new one, and a step
\* that changes it is one that records an analyze_complete event with a
\* preview that is not empty.
C39_PartialOnlyGrows ==
    [][\A j \in DOMAIN research_tasks :
          /\ IsPrefix(PartialOf(j), PartialOf(j)')
          /\ PartialOf(j)' # PartialOf(j) => PreviewRecorded(j)]_vars

\* Three analyses were recorded, the second of them empty: the partial
\* result holds the first and the third.
C39_Witness ==
    \E j \in DOMAIN research_tasks :
        /\ Cardinality(EventsOfType(LogOf(j), "analyze_complete")) = 3
        /\ \E i \in EventsOfType(LogOf(j), "analyze_complete") :
              LogOf(j)[i].data.details.insights_preview = << >>
        /\ \E a, b \in ShortAnalysis :
              PartialOf(j) = Lit("# Resultados Parciais", 23) \o InsightsPreview(a)
                                \o Lit("## Nova Analise", 19) \o InsightsPreview(b)


\* The lines "- title (url)" of a sources text with the type of the header
\* they stand under: text is what is left to read, url the slices read since
\* the last " (", header the type of the last header read.
RECURSIVE ListedSources(_, _, _, _)
ListedSources(text, url, inside, header) ==
    IF text = << >> THEN << >>
    ELSE LET c == Head(text)
         IN  IF ~inside
             THEN LET headed == { k \in 1 .. Len(SourceTypes) : TypeHeader(SourceTypes[k]) = <<c>> }
                  IN  ListedSources(Tail(text), << >>, c.b = " (",
                         IF headed = {} THEN header ELSE SourceTypes[CHOOSE k \in headed : TRUE])
             ELSE IF c.b = ")\\n"
             THEN <<[url |-> url, type |-> header]>>
                  \o ListedSources(Tail(text), << >>, FALSE, header)
             ELSE ListedSources(Tail(text), Append(url, c), TRUE, header)

\* The places of the fixed order at which a url has a summary with both a
\* url and a title.
PlacesOf(summaries, url) ==
    { k \in 1 .. Len(SourceTypes) :
        \E a \in 1 .. Len(summaries) :
            /\ summaries[a].url = url
            /\ Truthy(summaries[a].url) /\ Truthy(summaries[a].title)
            /\ ReportType(summaries[a]) = SourceTypes[k] }

FirstPlace(places) == CHOOSE k \in places : \A m \in places : k <= m

\* C40: after REPORT a url that has a summary with a url and a title is listed
\* exactly once, under the first of wikipedia, arxiv, google, other it was
\* summarized under; a url with no such summary is not listed, and the list
\* holds nothing else.
C40_ListedUnderFirstType ==
    \A j \in DOMAIN rstate :
        task[j].pc \in AfterReport =>
            LET listed == ListedSources(rstate[j].sources, << >>, FALSE, None)
                summaries == rstate[j].site_summaries
                At(url) == { a \in 1 .. Len(listed) : listed[a].url = url }
            IN  /\ \A url \in ReportUrls :
                      IF PlacesOf(summaries, url) = {} THEN At(url) = {}
                      ELSE /\ Cardinality(At(url)) = 1
                           /\ \A a \in At(url) :
                                 listed[a].type = SourceTypes[FirstPlace(PlacesOf(summaries, url))]
                /\ \A a \in 1 .. Len(listed) : listed[a].url \in ReportUrls

\* REPORT has run on summaries that hold one url under the general and the
\* encyclopedic type, in that order, and another url only in a summary with
\* no title: the first is listed under wikipedia and the second is not.
C40_Witness ==
    \E j \in DOMAIN rstate :
        /\ task[j].pc \in AfterReport
        /\ LET summaries == rstate[j].site_summaries
               listed == ListedSources(rstate[j].sources, << >>, FALSE, None)
           IN  /\ Len(summaries) = 3
               /\ summaries[1].source_type = "google"
               /\ summaries[2].source_type = "wikipedia"
               /\ summaries[1].url = summaries[2].url /\ Truthy(summaries[1].url)
               /\ Truthy(summaries[1].title) /\ Truthy(summaries[2].title)
               /\ Truthy(summaries[3].url) /\ ~Truthy(summaries[3].title)
               /\ summaries[3].url # summaries[1].url
               /\ listed = <<[url |-> summaries[1].url, type |-> "wikipedia"]>>

=========================================================================
